---- MODULE Spec2Model ----
(***************************************************************************)
(* Model of the "slice" desktop sample-library front end.                  *)
(*                                                                         *)
(*  Part I   mini-waveform queue, memory cache and player waveform load    *)
(*           (components/SampleBrowser.tsx 304-412, App.tsx 1054-1070)     *)
(*  Part II  query engine: applyFilters / sortSamples                      *)
(*           (components/SampleBrowser.tsx 154-264)                        *)
(*  Part III sample browser pagination and sort menu                       *)
(*           (components/SampleBrowser.tsx 530-554, 1055-1068)             *)
(*  Part IV  folder selector conflict resolution                           *)
(*           (components/FolderTreeSelector.tsx 132-146, 304-342)          *)
(***************************************************************************)
EXTENDS Integers, Sequences, FiniteSets, TLC

VARIABLES
    \* ---- Part I ----
    reqs,          \* every waveform request made so far (rows and player)
    queue,         \* _queue: ids of the _QueueItems, last = most recent
    activeReqs,    \* _activeReqs
    timeouts,      \* pending setTimeout(_processQueue, 0) callbacks
    cache,         \* waveformMemCache: path -> entry
    rows,          \* one MiniWaveform instance per list row (keyed by path)
    currentPath,   \* currentSample?.local_path of the player
    waveformData,  \* the player's waveformData state
    fileVer,       \* content version of the file behind each path
    \* ---- Part II ----
    fSamples,      \* applyFilters: the samples argument
    fFilters,      \* applyFilters: the filter arguments (SampleFilterSearch)
    fOut,          \* applyFilters: the returned array
    fDone,         \* whether applyFilters has been applied
    sIn,           \* sortSamples: the samples argument
    sBy,           \* sortSamples: sortBy
    sDir,          \* sortSamples: sortDir
    sOut,          \* sortSamples: the returned array
    sDone,         \* whether sortSamples has been applied
    bSearch,       \* SoundsPage: the route's search params (filters prop)
    bShuffleSeed,  \* SampleBrowser: shuffleSeed state
    bPage,         \* SampleBrowser: page state
    iStep,         \* FolderTreeSelector: step
    iSelected,     \* FolderTreeSelector: selected, in insertion order
    iConflicts,    \* FolderTreeSelector: conflicts
    iDecisions,    \* ConflictResolver: decisions, by conflict name
    iConfirmed,    \* what onConfirm received: [paths, replaceMap], or <<>>
    iChecking,     \* FolderTreeSelector: checking
    iCheck,        \* the check_pack_name_conflicts call of handleImportClick
    aFolderTree,   \* App: folderTree, "none" for null and "tree" for a scanned tree
    aChecked,      \* names check_pack_name_conflicts was called with in this import flow
    aImported,     \* selectedPaths of this flow's import_external_folder call, or <<>>
    aStale,        \* paths of the pending checks of selectors that were unmounted
    lDb,           \* backend: uuids of the packs of the catalog
    lPacks,        \* App: packs (their uuids)
    lLoading,      \* App: libraryLoading
    lRefreshes,    \* scan_library requests: state and the packs scanned
    lDeletes,      \* delete_pack requests, by uuid
    eEntity,       \* edit dialogs: the pack or sample being edited, as stored
    eForm,         \* edit dialogs: the inputs of the form
    eUpdated,      \* what update_pack / update_sample returned, or <<>>
    mFiltered,     \* the filtered array handed to the sorted memo
    mSortBy,       \* filters.sortBy
    mSortDir,      \* filters.sortDir
    mShuffleSeed,  \* the shuffleSeed state
    mSorted,       \* the value the sorted memo holds
    mRan,          \* whether the last render ran sortSamples
    pgSamples,     \* the samples prop of SampleBrowser
    pgSearch,      \* the search params (filters)
    pgPage,        \* the page state
    pgCurIdx,      \* index of currentSample in sorted (0-based), -1 if absent
    dPage,         \* the detail page shown: "pack" or "playlist"
    dRouteId,      \* packId / playlistId of the route
    dLoads,        \* the get_pack_samples / get_playlist_samples calls
    dSamples,      \* the samples state: owner id of the list, NoList for []
    dLoading,      \* the loading state
    xDb,           \* ids of the samples the backend stores
    xCurrent,      \* id of currentSample, 0 for null
    xPlaying,      \* isPlaying
    xDeletes,      \* the delete operations started
    uPhase,        \* phase: "loading", "ready" or "import"
    uStatus,       \* libraryStatus: "null", "has_data" or "no_data"
    uCheck,        \* the check_library_status call: "inflight" or "returned"
    uLoading,      \* libraryLoading
    uScans,        \* the scan_library calls started
    rCurrent,      \* currentSample.local_path, NoPath for null
    rReversed,     \* reversedRef.current
    rPlaying,      \* isPlaying / isPlayingRef.current
    rPending,      \* pendingRevPlayRef.current
    rBuffer,       \* path audioBufferRef / reversedBufferRef were decoded from
    rDecoding,     \* path the live decode effect is fetching, NoPath for none
    rRevSource,    \* path of the buffer revSourceRef plays, NoPath for null
    rDuration,     \* duration > 0: loadedmetadata has fired for the <audio>
    rChopSource    \* path of the audio the last chop segment played

waveVars == <<reqs, queue, activeReqs, timeouts, cache, rows, currentPath,
              waveformData, fileVer>>

filterVars == <<fSamples, fFilters, fOut, fDone>>

sortVars == <<sIn, sBy, sDir, sOut, sDone>>

browserVars == <<bSearch, bShuffleSeed, bPage>>

importVars == <<iStep, iSelected, iConflicts, iDecisions, iConfirmed, iChecking, iCheck>>

flowVars == <<aFolderTree, aChecked, aImported, aStale>>

libVars == <<lDb, lPacks, lLoading, lRefreshes, lDeletes>>

editVars == <<eEntity, eForm, eUpdated>>

memoVars == <<mFiltered, mSortBy, mSortDir, mShuffleSeed, mSorted, mRan>>

pagerVars == <<pgSamples, pgSearch, pgPage, pgCurIdx>>

detailVars == <<dPage, dRouteId, dLoads, dSamples, dLoading>>

playerDeleteVars == <<xDb, xCurrent, xPlaying, xDeletes>>

startupVars == <<uPhase, uStatus, uCheck, uLoading, uScans>>

reverseVars == <<rCurrent, rReversed, rPlaying, rPending, rBuffer, rDecoding, rRevSource, rDuration, rChopSource>>

vars == <<waveVars, filterVars, sortVars, browserVars, importVars, flowVars, libVars, editVars, memoVars, pagerVars, detailVars, playerDeleteVars, startupVars, reverseVars>>

\* What the steps of one part leave alone: the variables of the other parts.
notWave == <<filterVars, sortVars, browserVars, importVars, flowVars, libVars, editVars, memoVars, pagerVars, detailVars, playerDeleteVars, startupVars, reverseVars>>
notFilter == <<waveVars, sortVars, browserVars, importVars, flowVars, libVars, editVars, memoVars, pagerVars, detailVars, playerDeleteVars, startupVars, reverseVars>>
notSort == <<waveVars, filterVars, browserVars, importVars, flowVars, libVars, editVars, memoVars, pagerVars, detailVars, playerDeleteVars, startupVars, reverseVars>>
notBrowser == <<waveVars, filterVars, sortVars, importVars, flowVars, libVars, editVars, memoVars, pagerVars, detailVars, playerDeleteVars, startupVars, reverseVars>>
notImport == <<waveVars, filterVars, sortVars, browserVars, libVars, editVars, memoVars, pagerVars, detailVars, playerDeleteVars, startupVars, reverseVars>>
notLib == <<waveVars, filterVars, sortVars, browserVars, importVars, flowVars, editVars, memoVars, pagerVars, detailVars, playerDeleteVars, startupVars, reverseVars>>
notEdit == <<waveVars, filterVars, sortVars, browserVars, importVars, flowVars, libVars, memoVars, pagerVars, detailVars, playerDeleteVars, startupVars, reverseVars>>
notMemo == <<waveVars, filterVars, sortVars, browserVars, importVars, flowVars, libVars, editVars, pagerVars, detailVars, playerDeleteVars, startupVars, reverseVars>>
notPager == <<waveVars, filterVars, sortVars, browserVars, importVars, flowVars, libVars, editVars, memoVars, detailVars, playerDeleteVars, startupVars, reverseVars>>
notDetail == <<waveVars, filterVars, sortVars, browserVars, importVars, flowVars, libVars, editVars, memoVars, pagerVars, playerDeleteVars, startupVars, reverseVars>>
notPlayerDelete == <<waveVars, filterVars, sortVars, browserVars, importVars, flowVars, libVars, editVars, memoVars, pagerVars, detailVars, startupVars, reverseVars>>
notStartup == <<waveVars, filterVars, sortVars, browserVars, importVars, flowVars, libVars, editVars, memoVars, pagerVars, detailVars, playerDeleteVars, reverseVars>>
notReverse == <<waveVars, filterVars, sortVars, browserVars, importVars, flowVars, libVars, editVars, memoVars, pagerVars, detailVars, playerDeleteVars, startupVars>>

(***************************************************************************)
(* Part I : waveform requests                                              *)
(***************************************************************************)

\* Bounds of the model.
MaxReqs == 3
MaxVer == 1

\* _MAX_CONCURRENT of the mini-waveform queue.
MAX_CONCURRENT == 1

\* local_path of the samples in the list.
Paths == {"kick.wav", "snare.wav"}
NoPath == ""
NoData == [path |-> "", ver |-> 0]

\* What get_waveform answers for a path: the waveform of the file's content.
WaveformOf(p, v) == [path |-> p, ver |-> v]

ReqIds == 1..Len(reqs)

\* The get_waveform calls that were issued and have not been answered yet.
InFlight == {r \in ReqIds : reqs[r].state = "inflight"}

\* A fresh MiniWaveform request: the effect's closure with its 500 ms timer.
NewMiniReq(p) ==
    [kind |-> "mini", path |-> p, state |-> "timer", cancelled |-> FALSE,
     itemCancelled |-> FALSE, started |-> FALSE, invoked |-> FALSE,
     cancelledPending |-> FALSE, seq |-> 0, failed |-> FALSE]

\* A player request: invoke("get_waveform") is called straight from the effect.
NewPlayerReq(p) ==
    [kind |-> "player", path |-> p, state |-> "inflight", cancelled |-> FALSE,
     itemCancelled |-> FALSE, started |-> TRUE, invoked |-> TRUE,
     cancelledPending |-> FALSE, seq |-> 0, failed |-> FALSE]

\* Faulty variant of SkipCancelled: the cancellation flag is not looked at.
SkipCancelledNever(item) == FALSE

\* _processQueue line 327: a cancelled item is skipped.
SkipCancelled(item) == item.itemCancelled

\* Faulty variant of PopIndex: the queue is served first-in first-out.
PopIndexFifo(q) == 1

\* _processQueue line 326: _queue.pop() takes the last item.
PopIndex(q) == Len(q)

RemoveAt(q, i) == SubSeq(q, 1, i - 1) \o SubSeq(q, i + 1, Len(q))

\* Faulty variant of RunTask: _activeReqs is not incremented.
RunTaskNoCount(s, r) ==
    IF s.reqs[r].cancelled
    THEN [s EXCEPT !.reqs[r].started = TRUE, !.reqs[r].state = "done",
                   !.timeouts = @ + 1]
    ELSE [s EXCEPT !.reqs[r].started = TRUE, !.reqs[r].invoked = TRUE,
                   !.reqs[r].state = "inflight"]

\* The task handed to _enqueue (lines 393-404), up to its first await:
\* a cancelled closure returns at once, so the promise settles and the
\* finally callback (a microtask) releases the slot and defers the next
\* _processQueue; otherwise get_waveform is invoked.
RunTask(s, r) ==
    IF s.reqs[r].cancelled
    THEN [s EXCEPT !.reqs[r].started = TRUE, !.reqs[r].state = "done",
                   !.timeouts = @ + 1]
    ELSE [s EXCEPT !.reqs[r].started = TRUE, !.reqs[r].invoked = TRUE,
                   !.reqs[r].state = "inflight", !.active = @ + 1]

\* _processQueue: s = [q, reqs, active, timeouts].
RECURSIVE ProcessQueue(_)
ProcessQueue(s) ==
    IF s.active < MAX_CONCURRENT /\ Len(s.q) > 0
    THEN LET i == PopIndex(s.q)
             r == s.q[i]
             popped == [s EXCEPT !.q = RemoveAt(s.q, i)]
         IN  IF SkipCancelled(s.reqs[r])
             THEN ProcessQueue([popped EXCEPT !.reqs[r].state = "skipped"])
             ELSE RunTask(popped, r)
    ELSE s

QState == [q |-> queue, reqs |-> reqs, active |-> activeReqs, timeouts |-> timeouts]

SetQState(s) ==
    /\ queue' = s.q
    /\ reqs' = s.reqs
    /\ activeReqs' = s.active
    /\ timeouts' = s.timeouts

\* Faulty variant of Enqueue: the item is pushed and _processQueue not called.
EnqueueNoKick(s, r) ==
    [s EXCEPT !.q = Append(s.q, r), !.reqs[r].state = "queued",
              !.reqs[r].seq = 1 + Cardinality({x \in 1..Len(s.reqs) : s.reqs[x].seq > 0})]

\* _enqueue: push, then _processQueue when the slot is free.
Enqueue(s, r) ==
    LET pushed == [s EXCEPT !.q = Append(s.q, r), !.reqs[r].state = "queued",
                            !.reqs[r].seq = 1 + Cardinality({x \in 1..Len(s.reqs) : s.reqs[x].seq > 0})]
    IN  IF pushed.active < MAX_CONCURRENT THEN ProcessQueue(pushed) ELSE pushed

\* A row scrolls into view: MiniWaveform mounts, its state starts from the
\* memory cache, and without data the effect arms the 500 ms timer.
Mount(p) ==
    /\ ~rows[p].mounted
    /\ IF cache[p] # NoData
       THEN /\ rows' = [rows EXCEPT ![p] = [mounted |-> TRUE, data |-> cache[p], req |-> 0]]
            /\ reqs' = reqs
       ELSE /\ Len(reqs) < MaxReqs
            /\ reqs' = Append(reqs, NewMiniReq(p))
            /\ rows' = [rows EXCEPT ![p] = [mounted |-> TRUE, data |-> NoData,
                                            req |-> Len(reqs) + 1]]
    /\ UNCHANGED <<queue, activeReqs, timeouts, cache, currentPath, waveformData, fileVer>>
    /\ UNCHANGED notWave

\* The effect's cleanup (lines 407-411).
Cleanup(rq, r) ==
    IF r = 0 THEN rq
    ELSE [rq EXCEPT ![r].cancelled = TRUE,
                    ![r].state = IF @ = "timer" THEN "dropped" ELSE @,
                    ![r].itemCancelled = (rq[r].state # "timer"),
                    ![r].cancelledPending = (rq[r].state \in {"timer", "queued"})]

\* A row scrolls out of view: MiniWaveform unmounts.
Unmount(p) ==
    /\ rows[p].mounted
    /\ reqs' = Cleanup(reqs, rows[p].req)
    /\ rows' = [rows EXCEPT ![p] = [mounted |-> FALSE, data |-> NoData, req |-> 0]]
    /\ UNCHANGED <<queue, activeReqs, timeouts, cache, currentPath, waveformData, fileVer>>
    /\ UNCHANGED notWave

\* The 500 ms timer of a request fires (timers of equal delay fire in the
\* order they were armed) and the task is handed to _enqueue.
TimerFire(r) ==
    /\ reqs[r].state = "timer"
    /\ \A o \in 1..(r - 1) : reqs[o].state # "timer"
    /\ SetQState(Enqueue(QState, r))
    /\ UNCHANGED <<cache, rows, currentPath, waveformData, fileVer>>
    /\ UNCHANGED notWave

\* Faulty variant of SettleRuns: the callback is attached with then, so
\* it runs only when the task's promise fulfils.
SettleRunsThenOnly(ok) == IF ok THEN 1 ELSE 0

\* How often the callback of fn().finally(...) (lines 330-333) runs when
\* the task's promise settles: once, whether get_waveform answered (ok) or
\* failed.  The task catches the failure (line 403), so its promise
\* fulfils either way.
SettleRuns(ok) == 1

\* get_waveform answers a row's request (ok) or fails; then the finally
\* callback of _processQueue releases the slot and defers the next run.
MiniResponse(r, ok) ==
    /\ reqs[r].kind = "mini"
    /\ reqs[r].state = "inflight"
    /\ LET p == reqs[r].path
           entry == WaveformOf(p, fileVer[p])
           shown == ok /\ ~reqs[r].cancelled
       IN  /\ cache' = IF ok THEN [cache EXCEPT ![p] = entry] ELSE cache
           /\ rows' = IF shown THEN [rows EXCEPT ![p].data = entry, ![p].req = 0]
                      ELSE rows
           /\ reqs' = [(IF shown THEN Cleanup(reqs, r) ELSE reqs)
                          EXCEPT ![r].state = "done", ![r].failed = ~ok]
    /\ activeReqs' = activeReqs - SettleRuns(ok)
    /\ timeouts' = timeouts + SettleRuns(ok)
    /\ UNCHANGED <<queue, currentPath, waveformData, fileVer>>
    /\ UNCHANGED notWave

\* A deferred setTimeout(_processQueue, 0) runs.
DeferredProcessQueue ==
    /\ timeouts > 0
    /\ SetQState(ProcessQueue([QState EXCEPT !.timeouts = @ - 1]))
    /\ UNCHANGED <<cache, rows, currentPath, waveformData, fileVer>>
    /\ UNCHANGED notWave

\* The request of the player's current waveform effect, 0 if none.
PlayerReq ==
    IF \E r \in ReqIds : reqs[r].kind = "player" /\ ~reqs[r].cancelled
    THEN CHOOSE r \in ReqIds : reqs[r].kind = "player" /\ ~reqs[r].cancelled
    ELSE 0

\* The user selects another sample: the player's waveform effect
\* (App.tsx 1055-1070) cleans up the previous run and invokes get_waveform.
SelectSample(p) ==
    /\ p # currentPath
    /\ Len(reqs) < MaxReqs
    /\ currentPath' = p
    /\ waveformData' = NoData
    /\ reqs' = Append(Cleanup(reqs, PlayerReq), NewPlayerReq(p))
    /\ UNCHANGED <<queue, activeReqs, timeouts, cache, rows, fileVer>>
    /\ UNCHANGED notWave

\* currentSample becomes null (the playing sample was deleted).
ClearSample ==
    /\ currentPath # NoPath
    /\ currentPath' = NoPath
    /\ waveformData' = NoData
    /\ reqs' = Cleanup(reqs, PlayerReq)
    /\ UNCHANGED <<queue, activeReqs, timeouts, cache, rows, fileVer>>
    /\ UNCHANGED notWave

\* Faulty variant of PlayerResponse: the cancelled flag is not looked at.
PlayerResponseUnchecked(r, ok) ==
    /\ reqs[r].kind = "player"
    /\ reqs[r].state = "inflight"
    /\ waveformData' = IF ok THEN WaveformOf(reqs[r].path, fileVer[reqs[r].path])
                       ELSE waveformData
    /\ reqs' = [reqs EXCEPT ![r].state = "done", ![r].failed = ~ok]
    /\ UNCHANGED <<queue, activeReqs, timeouts, cache, rows, currentPath, fileVer>>
    /\ UNCHANGED notWave

\* get_waveform answers a player request or fails.
PlayerResponse(r, ok) ==
    /\ reqs[r].kind = "player"
    /\ reqs[r].state = "inflight"
    /\ waveformData' = IF ok /\ ~reqs[r].cancelled
                       THEN WaveformOf(reqs[r].path, fileVer[reqs[r].path])
                       ELSE waveformData
    /\ reqs' = [reqs EXCEPT ![r].state = "done", ![r].failed = ~ok]
    /\ UNCHANGED <<queue, activeReqs, timeouts, cache, rows, currentPath, fileVer>>
    /\ UNCHANGED notWave

\* The file behind a path is replaced: an import with a replace decision
\* re-creates the pack's files (App.tsx confirmFolderSelect).
ReplaceFile(p) ==
    /\ fileVer[p] < MaxVer
    /\ fileVer' = [fileVer EXCEPT ![p] = @ + 1]
    /\ UNCHANGED <<reqs, queue, activeReqs, timeouts, cache, rows, currentPath, waveformData>>
    /\ UNCHANGED notWave

WaveInit ==
    /\ reqs = <<>>
    /\ queue = <<>>
    /\ activeReqs = 0
    /\ timeouts = 0
    /\ cache = [p \in Paths |-> NoData]
    /\ rows = [p \in Paths |-> [mounted |-> FALSE, data |-> NoData, req |-> 0]]
    /\ currentPath = NoPath
    /\ waveformData = NoData
    /\ fileVer = [p \in Paths |-> 0]

WaveNext ==
    \/ \E p \in Paths : Mount(p)
    \/ \E p \in Paths : Unmount(p)
    \/ \E r \in ReqIds : TimerFire(r)
    \/ \E r \in ReqIds, ok \in BOOLEAN : MiniResponse(r, ok)
    \/ DeferredProcessQueue
    \/ \E p \in Paths : SelectSample(p)
    \/ ClearSample
    \/ \E r \in ReqIds, ok \in BOOLEAN : PlayerResponse(r, ok)

WaveFilesNext ==
    \/ WaveNext
    \/ \E p \in Paths : ReplaceFile(p)

(***************************************************************************)
(* Claims on Part I                                                        *)
(***************************************************************************)

\* C1: at most one get_waveform request is in flight at any time across the
\* whole app (list rows and player together).
C1_AtMostOneDecodeInFlight == Cardinality(InFlight) <= 1

\* C2: a request cancelled before it was taken from the queue (or before its
\* timer fired) is never started and never issues get_waveform.
C2_CancelledNeverStarted ==
    \A r \in ReqIds :
        reqs[r].cancelledPending => ~reqs[r].started /\ ~reqs[r].invoked

\* A request was cancelled while it waited in the queue and _processQueue
\* has since popped it.
C2_Witness ==
    \E r \in ReqIds : reqs[r].cancelledPending /\ reqs[r].state = "skipped"

\* C3: the request a step starts from the queue is the most recently
\* enqueued one that is pending and not cancelled: every uncancelled request
\* left in the queue was enqueued before it.
C3_LifoStart ==
    [][\A r \in ReqIds :
          (reqs[r].kind = "mini" /\ ~reqs[r].started /\ reqs'[r].started)
          => \A o \in ReqIds :
                (reqs'[o].state = "queued" /\ ~reqs'[o].itemCancelled)
                => reqs'[o].seq < reqs'[r].seq]_waveVars

\* A request runs while an older uncancelled one still waits in the queue.
C3_Witness ==
    \E r, o \in ReqIds :
        /\ reqs[r].kind = "mini" /\ reqs[r].state = "inflight"
        /\ reqs[o].state = "queued" /\ ~reqs[o].itemCancelled
        /\ reqs[o].seq < reqs[r].seq
        /\ \E d \in ReqIds : reqs[d].kind = "mini" /\ reqs[d].state = "done"

\* C4: for every path at most one get_waveform request for that path is in
\* flight at any time.
C4_OneDecodePerPath ==
    \A p \in Paths : Cardinality({r \in InFlight : reqs[r].path = p}) <= 1

\* C5: once the waveform of a path is in the cache (the file unchanged), no
\* further get_waveform is issued for that path, and a row asking for it is
\* given the cached data.
C5_SecondRequestFromCache ==
    [][/\ \A r \in 1..Len(reqs') :
             ((r \in ReqIds => ~reqs[r].invoked) /\ reqs'[r].invoked)
             => cache[reqs'[r].path] = NoData
       /\ \A p \in Paths :
             (~rows[p].mounted /\ rows'[p].mounted /\ cache[p] # NoData)
             => rows'[p].data = cache[p]]_waveVars

\* C6: a row that comes into view is never given a cached waveform of a file
\* version older than the file now behind its path.
C6_NoStaleCacheServed ==
    [][\A p \in Paths :
          (~rows[p].mounted /\ rows'[p].mounted /\ rows'[p].data # NoData)
          => rows'[p].data = WaveformOf(p, fileVer'[p])]_waveVars

(***************************************************************************)
(* Part II : query engine                                                  *)
(***************************************************************************)

\* Bound of the model: the longest sample list handed to applyFilters.
MaxFilterLen == 2

\* Strings are sequences of one-character strings; null is a value apart.
Null == <<"<null>">>
NullNum == -1
Falsy(str) == str = Null \/ str = <<>>

UpperAlpha == <<"A","B","C","D","E","F","G","H","I","J","K","L","M",
                "N","O","P","Q","R","S","T","U","V","W","X","Y","Z">>
LowerAlpha == <<"a","b","c","d","e","f","g","h","i","j","k","l","m",
                "n","o","p","q","r","s","t","u","v","w","x","y","z">>

LowerChar(c) ==
    IF \E i \in 1..26 : UpperAlpha[i] = c
    THEN LowerAlpha[CHOOSE i \in 1..26 : UpperAlpha[i] = c]
    ELSE c

UpperChar(c) ==
    IF \E i \in 1..26 : LowerAlpha[i] = c
    THEN UpperAlpha[CHOOSE i \in 1..26 : LowerAlpha[i] = c]
    ELSE c

\* String.prototype.toLowerCase
ToLowerCase(str) == [i \in 1..Len(str) |-> LowerChar(str[i])]

\* String.prototype.includes
Includes(str, q) ==
    \E i \in 0..(Len(str) - Len(q)) : SubSeq(str, i + 1, i + Len(q)) = q

\* String.prototype.split(",")
RECURSIVE Split(_)
Split(str) ==
    IF \E i \in 1..Len(str) : str[i] = ","
    THEN LET i == CHOOSE k \in 1..Len(str) :
                     str[k] = "," /\ \A j \in 1..(k - 1) : str[j] # ","
         IN  <<SubSeq(str, 1, i - 1)>> \o Split(SubSeq(str, i + 1, Len(str)))
    ELSE <<str>>

\* String.prototype.trim
RECURSIVE Trim(_)
Trim(str) ==
    IF Len(str) > 0 /\ str[1] = " " THEN Trim(Tail(str))
    ELSE IF Len(str) > 0 /\ str[Len(str)] = " " THEN Trim(SubSeq(str, 1, Len(str) - 1))
    ELSE str

\* s.tags.split(",").map((t) => t.trim())
TagList(tags) == LET parts == Split(tags) IN [i \in 1..Len(parts) |-> Trim(parts[i])]

\* st.some((t) => set.has(t))
SomeIn(st, set) == \E i \in 1..Len(st) : st[i] \in set

\* formatKey (lines 73-78)
formatKey(audioKey, chordType) ==
    IF Falsy(audioKey) THEN Null
    ELSE LET k == <<UpperChar(audioKey[1])>> \o Tail(audioKey)
         IN  IF chordType = "minor" THEN k \o <<"m">> ELSE k

\* const g = s.genre || s.pack_genre
EffectiveGenre(s) == IF Falsy(s.genre) THEN s.pack_genre ELSE s.genre

\* (s.pack_name || ""), (s.tags || "")
OrEmpty(str) == IF Falsy(str) THEN <<>> ELSE str

\* The samples the lists are drawn from.
SampleCatalog ==
    { [id |-> 1, filename |-> <<"K","i","c","k">>, pack_name |-> <<"D","r">>,
       tags |-> <<"d","r","u","m","s",",","d","a","r","k">>,
       genre |-> Null, pack_genre |-> <<"A">>, bpm |-> 90,
       audio_key |-> <<"c">>, chord_type |-> "minor", sample_type |-> "oneshot",
       duration |-> 500, created_at |-> <<"1">>],
      [id |-> 2, filename |-> <<"k","i","t">>, pack_name |-> Null,
       tags |-> <<"f","x",","," ","d","a","r","k">>,
       genre |-> <<"B">>, pack_genre |-> <<"A">>, bpm |-> 100,
       audio_key |-> <<"c">>, chord_type |-> "major", sample_type |-> "loop",
       duration |-> NullNum, created_at |-> <<"2">>],
      [id |-> 3, filename |-> <<"S","n">>, pack_name |-> <<"K","i">>,
       tags |-> Null,
       genre |-> <<>>, pack_genre |-> Null, bpm |-> NullNum,
       audio_key |-> Null, chord_type |-> "null", sample_type |-> "null",
       duration |-> 300, created_at |-> Null],
      [id |-> 4, filename |-> <<"h","a","t">>, pack_name |-> <<"D","r">>,
       tags |-> <<"d","r","u","m","s">>,
       genre |-> <<"A">>, pack_genre |-> Null, bpm |-> 120,
       audio_key |-> <<"d">>, chord_type |-> "null", sample_type |-> "loop",
       duration |-> 200, created_at |-> <<"1">>],
      [id |-> 5, filename |-> <<"T","o","m">>, pack_name |-> <<"D","r">>,
       tags |-> <<" ","f","x"," ">>,
       genre |-> Null, pack_genre |-> Null, bpm |-> NullNum,
       audio_key |-> <<"d">>, chord_type |-> "minor", sample_type |-> "oneshot",
       duration |-> NullNum, created_at |-> <<"3">>] }

SeqsUpTo(S, n) == UNION {[1..k -> S] : k \in 0..n}

\* The filter settings applyFilters is applied to.
FilterInputs ==
    [q : {<<>>, <<"k">>, <<"K","I">>, <<"f","x">>},
     genres : {{}, {<<"A">>}, {<<"A">>, <<"B">>}},
     bpmMin : {NullNum, 90},
     bpmMax : {NullNum, 100},
     keys : {{}, {<<"C","m">>}, {<<"C">>, <<"D">>}},
     type : {"all", "loop"},
     instruments : {{}, {<<"d","r","u","m","s">>}},
     include : {{}, {<<"d","a","r","k">>}, {<<"d","a","r","k">>, <<"f","x">>}},
     exclude : {{}, {<<"d","r","u","m","s">>}}]

NoFilters ==
    [q |-> <<>>, genres |-> {}, bpmMin |-> NullNum, bpmMax |-> NullNum, keys |-> {},
     type |-> "all", instruments |-> {}, include |-> {}, exclude |-> {}]

\* bpmRange (lines 512-516): active only with both ends given.
BpmRangeActive(F) == F.bpmMin # NullNum /\ F.bpmMax # NullNum

\* Faulty variant of MatchText: the pack name is not searched.
MatchTextNoPack(s, query) ==
    LET q == ToLowerCase(query)
    IN  \/ Includes(ToLowerCase(s.filename), q)
        \/ Includes(ToLowerCase(OrEmpty(s.tags)), q)

\* The predicates of the eight r.filter(...) calls (lines 167-218).
MatchText(s, query) ==
    LET q == ToLowerCase(query)
    IN  \/ Includes(ToLowerCase(s.filename), q)
        \/ Includes(ToLowerCase(OrEmpty(s.pack_name)), q)
        \/ Includes(ToLowerCase(OrEmpty(s.tags)), q)

MatchGenre(s, selectedGenres) ==
    EffectiveGenre(s) # Null /\ EffectiveGenre(s) \in selectedGenres

\* Faulty variant of MatchBpm: the upper bound is exclusive.
MatchBpmExclusive(s, min, max) == s.bpm # NullNum /\ s.bpm >= min /\ s.bpm < max

MatchBpm(s, min, max) == s.bpm # NullNum /\ s.bpm >= min /\ s.bpm <= max

MatchKey(s, selectedKeys) ==
    LET k == formatKey(s.audio_key, s.chord_type)
    IN  k # Null /\ k \in selectedKeys

MatchType(s, sampleType) == s.sample_type = sampleType

MatchInstrument(s, selectedInstruments) ==
    IF Falsy(s.tags) THEN FALSE ELSE SomeIn(TagList(s.tags), selectedInstruments)

\* Faulty variant of MatchInclude: the split tags are not trimmed.
MatchIncludeUntrimmed(s, includeTags) ==
    IF Falsy(s.tags) THEN FALSE ELSE SomeIn(Split(s.tags), includeTags)

MatchInclude(s, includeTags) ==
    IF Falsy(s.tags) THEN FALSE ELSE SomeIn(TagList(s.tags), includeTags)

MatchExclude(s, excludeTags) ==
    IF Falsy(s.tags) THEN TRUE ELSE ~SomeIn(TagList(s.tags), excludeTags)

\* Array.prototype.filter
Filter(r, Pred(_)) == SelectSeq(r, Pred)

\* The steps of applyFilters, each on the result r of the step before.
StepText(r, F) ==
    IF Len(F.q) >= 2 THEN LET P(s) == MatchText(s, F.q) IN Filter(r, P) ELSE r

StepGenre(r, F) ==
    IF Cardinality(F.genres) > 0
    THEN LET P(s) == MatchGenre(s, F.genres) IN Filter(r, P) ELSE r

StepBpm(r, F) ==
    IF BpmRangeActive(F)
    THEN LET P(s) == MatchBpm(s, F.bpmMin, F.bpmMax) IN Filter(r, P) ELSE r

StepKey(r, F) ==
    IF Cardinality(F.keys) # 0
    THEN LET P(s) == MatchKey(s, F.keys) IN Filter(r, P) ELSE r

StepType(r, F) ==
    IF F.type # "all" THEN LET P(s) == MatchType(s, F.type) IN Filter(r, P) ELSE r

StepInstrument(r, F) ==
    IF Cardinality(F.instruments) > 0
    THEN LET P(s) == MatchInstrument(s, F.instruments) IN Filter(r, P) ELSE r

StepInclude(r, F) ==
    IF Cardinality(F.include) > 0
    THEN LET P(s) == MatchInclude(s, F.include) IN Filter(r, P) ELSE r

\* Faulty variant of StepExclude: the exclude step is left out.
StepExcludeDropped(r, F) == r

StepExclude(r, F) ==
    IF Cardinality(F.exclude) > 0
    THEN LET P(s) == MatchExclude(s, F.exclude) IN Filter(r, P) ELSE r

\* applyFilters (lines 154-221)
applyFilters(samples, F) ==
    StepExclude(StepInclude(StepInstrument(StepType(StepKey(StepBpm(
        StepGenre(StepText(samples, F), F), F), F), F), F), F), F)

FilterIdle ==
    /\ fSamples = <<>>
    /\ fFilters = NoFilters
    /\ fOut = <<>>
    /\ fDone = FALSE

FilterInit ==
    /\ fSamples \in SeqsUpTo(SampleCatalog, MaxFilterLen)
    /\ fFilters \in FilterInputs
    /\ fOut = <<>>
    /\ fDone = FALSE

\* filtered = applyFilters(samples, ...) (lines 535-538)
ApplyFiltersCall ==
    /\ ~fDone
    /\ fOut' = applyFilters(fSamples, fFilters)
    /\ fDone' = TRUE
    /\ UNCHANGED <<fSamples, fFilters>>
    /\ UNCHANGED notFilter

FilterNext == ApplyFiltersCall

\* ---- sortSamples (lines 224-264) ----

\* Bound of the model: the longest sample list handed to sortSamples.
MaxSortLen == 4

SortKeys == {"filename", "bpm", "duration", "recent", "shuffle"}
SortDirs == {"asc", "desc"}

\* const dir = sortDir === "desc" ? -1 : 1
DirOf(sortDir) == IF sortDir = "desc" THEN -1 ELSE 1

\* Collation rank of a character for localeCompare: punctuation, digits,
\* then letters regardless of case.
CharRank(c) ==
    LET l == LowerChar(c)
    IN  IF \E i \in 1..26 : LowerAlpha[i] = l
        THEN 20 + (CHOOSE i \in 1..26 : LowerAlpha[i] = l)
        ELSE IF c \in {"0","1","2","3","4","5","6","7","8","9"}
             THEN 10 + (CHOOSE d \in 0..9 : <<"0","1","2","3","4","5","6","7","8","9">>[d + 1] = c)
             ELSE 1

\* Lexicographic comparison of two sequences by a rank of their elements.
RECURSIVE LexCompare(_, _)
LexCompare(x, y) ==
    IF Len(x) = 0 /\ Len(y) = 0 THEN 0
    ELSE IF Len(x) = 0 THEN -1
    ELSE IF Len(y) = 0 THEN 1
    ELSE IF x[1] < y[1] THEN -1
    ELSE IF x[1] > y[1] THEN 1
    ELSE LexCompare(Tail(x), Tail(y))

\* String.prototype.localeCompare: letters compare without case first; among
\* strings equal up to case, lower case comes first.
LocaleCompare(x, y) ==
    LET px == [i \in 1..Len(x) |-> CharRank(x[i])]
        py == [i \in 1..Len(y) |-> CharRank(y[i])]
        cx == [i \in 1..Len(x) |-> IF LowerChar(x[i]) = x[i] THEN 0 ELSE 1]
        cy == [i \in 1..Len(y) |-> IF LowerChar(y[i]) = y[i] THEN 0 ELSE 1]
    IN  IF LexCompare(px, py) # 0 THEN LexCompare(px, py) ELSE LexCompare(cx, cy)

\* Faulty variant of CmpBpm: the direction is applied to the null cases too.
CmpBpmNullsByDir(a, b, dir) ==
    IF a.bpm = NullNum THEN 1 * dir
    ELSE IF b.bpm = NullNum THEN -1 * dir
    ELSE (a.bpm - b.bpm) * dir

\* The comparator of case "bpm" (lines 238-242).
CmpBpm(a, b, dir) ==
    IF a.bpm = NullNum THEN 1
    ELSE IF b.bpm = NullNum THEN -1
    ELSE (a.bpm - b.bpm) * dir

\* The comparator of case "duration" (lines 245-249).
CmpDuration(a, b, dir) ==
    IF a.duration = NullNum THEN 1
    ELSE IF b.duration = NullNum THEN -1
    ELSE (a.duration - b.duration) * dir

\* The comparator of case "recent" (lines 252-256).
CmpRecent(a, b, dir) ==
    LocaleCompare(OrEmpty(b.created_at), OrEmpty(a.created_at)) * dir

\* The comparator of case "filename" (line 260).
CmpFilename(a, b, dir) == LocaleCompare(a.filename, b.filename) * dir

\* The comparator sortSamples hands to Array.prototype.sort.
Cmp(sortBy, dir, a, b) ==
    IF sortBy = "bpm" THEN CmpBpm(a, b, dir)
    ELSE IF sortBy = "duration" THEN CmpDuration(a, b, dir)
    ELSE IF sortBy = "recent" THEN CmpRecent(a, b, dir)
    ELSE CmpFilename(a, b, dir)

Reverse(arr) == [i \in 1..Len(arr) |-> arr[Len(arr) + 1 - i]]

\* Array.prototype.sort of V8 (WebView2) for arrays shorter than 64: one
\* run is counted (and reversed if strictly descending), the rest is placed
\* by binary insertion.
RECURSIVE V8RunLength(_, _, _, _, _)
V8RunLength(arr, sortBy, dir, desc, n) ==
    IF n >= Len(arr) THEN n
    ELSE LET order == Cmp(sortBy, dir, arr[n + 1], arr[n])
         IN  IF (desc /\ order >= 0) \/ (~desc /\ order < 0) THEN n
             ELSE V8RunLength(arr, sortBy, dir, desc, n + 1)

RECURSIVE V8BinarySearch(_, _, _, _, _, _)
V8BinarySearch(arr, sortBy, dir, pivot, left, right) ==
    IF left < right
    THEN LET mid == left + ((right - left) \div 2)
         IN  IF Cmp(sortBy, dir, pivot, arr[mid + 1]) < 0
             THEN V8BinarySearch(arr, sortBy, dir, pivot, left, mid)
             ELSE V8BinarySearch(arr, sortBy, dir, pivot, mid + 1, right)
    ELSE left

RECURSIVE V8BinaryInsertionSort(_, _, _, _)
V8BinaryInsertionSort(arr, sortBy, dir, start) ==
    IF start >= Len(arr) THEN arr
    ELSE LET pivot == arr[start + 1]
             left == V8BinarySearch(arr, sortBy, dir, pivot, 0, start)
             placed == SubSeq(arr, 1, left) \o <<pivot>> \o SubSeq(arr, left + 1, start)
                       \o SubSeq(arr, start + 2, Len(arr))
         IN  V8BinaryInsertionSort(placed, sortBy, dir, start + 1)

V8Sort(arr, sortBy, dir) ==
    IF Len(arr) < 2 THEN arr
    ELSE LET desc == Cmp(sortBy, dir, arr[2], arr[1]) < 0
             n == V8RunLength(arr, sortBy, dir, desc, 2)
             run == IF desc THEN Reverse(SubSeq(arr, 1, n)) \o SubSeq(arr, n + 1, Len(arr))
                    ELSE arr
         IN  V8BinaryInsertionSort(run, sortBy, dir, n)

\* Array.prototype.sort of JavaScriptCore (WKWebView, WebKitGTK): a
\* bottom-up merge sort that takes the right element when
\* comparator(right, left) < 0.  Indices are 0-based as in the engine.
RECURSIVE JSCMerge(_, _, _, _, _, _, _)
JSCMerge(src, sortBy, dir, left, leftEnd, right, rightEnd) ==
    IF left >= leftEnd /\ right >= rightEnd THEN <<>>
    ELSE IF right < rightEnd
            /\ (left >= leftEnd \/ Cmp(sortBy, dir, src[right + 1], src[left + 1]) < 0)
         THEN <<src[right + 1]>> \o JSCMerge(src, sortBy, dir, left, leftEnd, right + 1, rightEnd)
         ELSE <<src[left + 1]>> \o JSCMerge(src, sortBy, dir, left + 1, leftEnd, right, rightEnd)

Min(a, b) == IF a < b THEN a ELSE b

RECURSIVE JSCMergePass(_, _, _, _, _)
JSCMergePass(src, sortBy, dir, width, srcIndex) ==
    IF srcIndex >= Len(src) THEN <<>>
    ELSE LET leftEnd == Min(srcIndex + width, Len(src))
             rightEnd == Min(leftEnd + width, Len(src))
         IN  JSCMerge(src, sortBy, dir, srcIndex, leftEnd, leftEnd, rightEnd)
             \o JSCMergePass(src, sortBy, dir, width, srcIndex + 2 * width)

RECURSIVE JSCMergeSort(_, _, _, _)
JSCMergeSort(src, sortBy, dir, width) ==
    IF width >= Len(src) THEN src
    ELSE JSCMergeSort(JSCMergePass(src, sortBy, dir, width, 0), sortBy, dir, 2 * width)

JSCSort(arr, sortBy, dir) == JSCMergeSort(arr, sortBy, dir, 1)

Engines == {"v8", "jsc"}

\* sorted.sort(comparator) on the webview's engine.
ArraySort(engine, arr, sortBy, dir) ==
    IF engine = "v8" THEN V8Sort(arr, sortBy, dir) ELSE JSCSort(arr, sortBy, dir)

Swap(arr, i, j) == [arr EXCEPT ![i] = arr[j], ![j] = arr[i]]

\* The shuffle loop (lines 226-231) from index i (0-based) down: every
\* value Math.random can give is a choice of j in 0..i.
RECURSIVE ShuffleFrom(_, _)
ShuffleFrom(arr, i) ==
    IF i <= 0 THEN {arr}
    ELSE UNION {ShuffleFrom(Swap(arr, i + 1, j + 1), i - 1) : j \in 0..i}

\* sortSamples: the arrays it can return.
sortSamples(samples, sortBy, sortDir) ==
    IF sortBy = "shuffle" THEN ShuffleFrom(samples, Len(samples) - 1)
    ELSE {ArraySort(e, samples, sortBy, DirOf(sortDir)) : e \in Engines}

SortIdle ==
    /\ sIn = <<>>
    /\ sBy = "filename"
    /\ sDir = "asc"
    /\ sOut = <<>>
    /\ sDone = FALSE

SortInit ==
    /\ sIn \in SeqsUpTo(SampleCatalog, MaxSortLen)
    /\ sBy \in SortKeys
    /\ sDir \in SortDirs
    /\ sOut = <<>>
    /\ sDone = FALSE

\* sorted = sortSamples(filtered, sortBy, sortDir) (lines 540-543)
SortSamplesCall ==
    /\ ~sDone
    /\ sOut' \in sortSamples(sIn, sBy, sDir)
    /\ sDone' = TRUE
    /\ UNCHANGED <<sIn, sBy, sDir>>
    /\ UNCHANGED notSort

SortNext == SortSamplesCall

\* ---- SampleBrowser paging (lines 530-554, 1055-1068, 1523-1540) ----

\* Bounds of the model: the number of samples of the library and the
\* number of shuffle requests.
LibrarySize == 60
MaxShuffles == 2

\* const PAGE_SIZE = 50
PAGE_SIZE == 50

CatalogSample(k) == CHOOSE s \in SampleCatalog : s.id = k

\* The samples prop: the catalog's samples repeated under fresh ids.
Library ==
    [i \in 1..LibrarySize |->
        [CatalogSample(((i - 1) % Cardinality(SampleCatalog)) + 1) EXCEPT !.id = i]]

\* The search params with no filter and the default sort.
EmptySearch ==
    [q |-> <<>>, genres |-> {}, bpmMin |-> NullNum, bpmMax |-> NullNum, keys |-> {},
     type |-> "all", instruments |-> {}, include |-> {}, exclude |-> {},
     sortBy |-> "filename", sortDir |-> "asc"]

\* cleanSampleSearch (part_004 lines 10-25): prev overlaid with updates,
\* then empty and default values are dropped; an absent field reads as
\* its default (lines 505-531), which is how it is stored here.
cleanSampleSearch(prev, updates) ==
    LET next == [k \in DOMAIN prev |-> IF k \in DOMAIN updates THEN updates[k] ELSE prev[k]]
    IN  [next EXCEPT !.sortDir = IF next.sortDir = "desc" THEN "desc" ELSE "asc"]

\* Whether some r.filter(...) step of applyFilters runs, so that the result
\* is a new array and not the samples argument itself.
AnyStepActive(F) ==
    \/ Len(F.q) >= 2
    \/ Cardinality(F.genres) > 0
    \/ BpmRangeActive(F)
    \/ Cardinality(F.keys) # 0
    \/ F.type # "all"
    \/ Cardinality(F.instruments) > 0
    \/ Cardinality(F.include) > 0
    \/ Cardinality(F.exclude) > 0

\* bpmRange as the memo of lines 512-516 yields it.
BpmRangeOf(F) == IF BpmRangeActive(F) THEN <<F.bpmMin, F.bpmMax>> ELSE <<>>

\* Whether a dependency of the filtered memo (lines 535-538) changes from
\* search old to search new.  An array of the search that is present and
\* equal either keeps its identity or is a new array (keep).
MemoDepsChanged(old, new, keep) ==
    \/ old.q # new.q
    \/ old.type # new.type
    \/ old.bpmMin # new.bpmMin /\ BpmRangeOf(old) # BpmRangeOf(new)
    \/ old.bpmMax # new.bpmMax /\ BpmRangeOf(old) # BpmRangeOf(new)
    \/ (old.bpmMin # new.bpmMin \/ old.bpmMax # new.bpmMax) /\ BpmRangeActive(new)
    \/ \E k \in {"genres", "keys", "instruments", "include", "exclude"} :
          \/ old[k] # new[k]
          \/ ~keep /\ new[k] # {}

\* Whether filtered is another array after the render with search new.
FilteredChanged(old, new, keep) ==
    MemoDepsChanged(old, new, keep) /\ (AnyStepActive(old) \/ AnyStepActive(new))

\* Whether the effect of lines 552-554 runs: its dependencies are
\* [filtered, sortBy, shuffleSeed].
PageEffectDeps(old, new, oldSeed, newSeed, keep) ==
    \/ FilteredChanged(old, new, keep)
    \/ old.sortBy # new.sortBy
    \/ oldSeed # newSeed

\* totalPages (line 548)
totalPages(F) ==
    LET n == Len(applyFilters(Library, F))
    IN  IF n = 0 THEN 1 ELSE (n + PAGE_SIZE - 1) \div PAGE_SIZE

\* handleFiltersChange (part_004 lines 79-89) with the optional
\* setShuffleSeed of the caller, then the render and its page effect.
FiltersChange(updates, newSeed) ==
    \E keep \in BOOLEAN :
        LET next == cleanSampleSearch(bSearch, updates)
        IN  /\ bSearch' = next
            /\ bShuffleSeed' = newSeed
            /\ bPage' = IF PageEffectDeps(bSearch, next, bShuffleSeed, newSeed, keep)
                        THEN 0 ELSE bPage

Toggle(S, x) == IF x \in S THEN S \ {x} ELSE S \cup {x}

\* the search input (line 1013)
SetQuery(q) ==
    /\ q # bSearch.q
    /\ FiltersChange([q |-> q], bShuffleSeed)
    /\ UNCHANGED notBrowser

\* toggleGenre (lines 605-609)
ToggleGenre(g) ==
    /\ FiltersChange([genres |-> Toggle(bSearch.genres, g)], bShuffleSeed)
    /\ UNCHANGED notBrowser

\* toggleInstrument (lines 611-615)
ToggleInstrument(inst) ==
    /\ FiltersChange([instruments |-> Toggle(bSearch.instruments, inst)], bShuffleSeed)
    /\ UNCHANGED notBrowser

\* toggleKey (lines 678-682)
ToggleKey(key) ==
    /\ FiltersChange([keys |-> Toggle(bSearch.keys, key)], bShuffleSeed)
    /\ UNCHANGED notBrowser

\* Faulty variant of cycleTag: include -> exclude leaves the tag included.
cycleTagKeepInclude(includeTags, excludeTags, tag) ==
    IF tag \in includeTags
    THEN [include |-> includeTags, exclude |-> excludeTags \cup {tag}]
    ELSE IF tag \in excludeTags
         THEN [include |-> includeTags, exclude |-> excludeTags \ {tag}]
         ELSE [include |-> includeTags \cup {tag}, exclude |-> excludeTags]

\* cycleTag (lines 618-633): none -> include -> exclude -> none; the
\* updates handed to onFiltersChange.
cycleTag(includeTags, excludeTags, tag) ==
    IF tag \in includeTags
    THEN [include |-> includeTags \ {tag}, exclude |-> excludeTags \cup {tag}]
    ELSE IF tag \in excludeTags
         THEN [include |-> includeTags, exclude |-> excludeTags \ {tag}]
         ELSE [include |-> includeTags \cup {tag}, exclude |-> excludeTags]

\* a click on a tag of the tag list (line 955)
CycleTag(tag) ==
    /\ FiltersChange(cycleTag(bSearch.include, bSearch.exclude, tag), bShuffleSeed)
    /\ UNCHANGED notBrowser

\* removeTag (lines 635-641), the x of an active tag chip
RemoveTag(tag) ==
    /\ tag \in bSearch.include \cup bSearch.exclude
    /\ FiltersChange([include |-> bSearch.include \ {tag},
                      exclude |-> bSearch.exclude \ {tag}], bShuffleSeed)
    /\ UNCHANGED notBrowser

\* the slider of the bpm range and its clear button (lines 1107, 1111)
SetBpmRange(lo, hi) ==
    /\ <<lo, hi>> # <<bSearch.bpmMin, bSearch.bpmMax>>
    /\ FiltersChange([bpmMin |-> lo, bpmMax |-> hi], bShuffleSeed)
    /\ UNCHANGED notBrowser

\* the sample type button (lines 1181-1185)
CycleType ==
    /\ FiltersChange(
          [type |-> IF bSearch.type = "all" THEN "oneshot"
                    ELSE IF bSearch.type = "oneshot" THEN "loop" ELSE "all"],
          bShuffleSeed)
    /\ UNCHANGED notBrowser

\* a click in the sort menu (lines 1055-1068)
SortClick(value) ==
    /\ IF value = "shuffle"
       THEN /\ bShuffleSeed < MaxShuffles
            /\ FiltersChange([sortBy |-> value, sortDir |-> "undefined"], bShuffleSeed + 1)
       ELSE IF bSearch.sortBy = value
            THEN FiltersChange(
                    [sortDir |-> IF bSearch.sortDir = "asc" THEN "desc" ELSE "asc"],
                    bShuffleSeed)
            ELSE FiltersChange([sortBy |-> value, sortDir |-> "undefined"], bShuffleSeed)
    /\ UNCHANGED notBrowser

\* the page buttons (lines 1529-1540)
PrevPage ==
    /\ totalPages(bSearch) > 1
    /\ ~(bPage <= 0)
    /\ bPage' = bPage - 1
    /\ UNCHANGED <<bSearch, bShuffleSeed>>
    /\ UNCHANGED notBrowser

NextPage ==
    /\ totalPages(bSearch) > 1
    /\ ~(bPage >= totalPages(bSearch) - 1)
    /\ bPage' = bPage + 1
    /\ UNCHANGED <<bSearch, bShuffleSeed>>
    /\ UNCHANGED notBrowser

BrowserIdle ==
    /\ bSearch = EmptySearch
    /\ bShuffleSeed = 0
    /\ bPage = 0

BrowserInit == BrowserIdle

\* The tags of the tag list that are clicked.
BrowserTags == {<<"d","a","r","k">>, <<"f","x">>}

BrowserNext ==
    \/ \E q \in {<<>>, <<"k">>, <<"k","i">>} : SetQuery(q)
    \/ ToggleGenre(<<"A">>)
    \/ ToggleInstrument(<<"d","r","u","m","s">>)
    \/ ToggleKey(<<"C","m">>)
    \/ \E tag \in BrowserTags : CycleTag(tag)
    \/ \E tag \in BrowserTags : RemoveTag(tag)
    \/ \E r \in {<<NullNum, NullNum>>, <<90, 100>>} : SetBpmRange(r[1], r[2])
    \/ CycleType
    \/ \E value \in SortKeys : SortClick(value)
    \/ PrevPage
    \/ NextPage

\* ---- FolderTreeSelector: selection, conflicts, replace map ----

\* String.prototype.split("/")
RECURSIVE SplitPath(_)
SplitPath(path) ==
    IF \E i \in 1..Len(path) : path[i] = "/"
    THEN LET i == CHOOSE k \in 1..Len(path) :
                     path[k] = "/" /\ \A j \in 1..(k - 1) : path[j] # "/"
         IN  <<SubSeq(path, 1, i - 1)>> \o SplitPath(SubSeq(path, i + 1, Len(path)))
    ELSE <<path>>

\* folderNameFromPath (lines 35-38)
folderNameFromPath(path) ==
    LET parts == SplitPath(path)
    IN  IF parts[Len(parts)] = <<>> THEN <<"U","n","k","n","o","w","n">>
        ELSE parts[Len(parts)]

\* String.prototype.startsWith
StartsWith(str, prefix) ==
    Len(prefix) <= Len(str) /\ SubSeq(str, 1, Len(prefix)) = prefix

\* The scanned tree: r holds a and b and audio files of its own (the
\* row of the root's files, lines 416-437); a and b each hold a folder X.
FirstLevel == << <<"r","/","a">>, <<"r","/","b">> >>
FolderPaths ==
    { <<"r">>, <<"r","/","a">>, <<"r","/","b">>,
      <<"r","/","a","/","X">>, <<"r","/","b","/","X">> }

\* The packs of the catalog: two packs named X (an earlier import of X was
\* added as a new pack), one named a.
ExistingPacks ==
    { [uuid |-> "u1", name |-> <<"X">>, sample_count |-> 3],
      [uuid |-> "u2", name |-> <<"X">>, sample_count |-> 5],
      [uuid |-> "u3", name |-> <<"a">>, sample_count |-> 1] }

\* check_pack_name_conflicts: for each proposed name with an existing pack
\* of that name, a PackConflict carrying an existing pack's uuid and sample
\* count; names with no match are omitted.  The results it can give.
RECURSIVE CheckConflicts(_)
CheckConflicts(names) ==
    IF names = <<>> THEN {<<>>}
    ELSE LET matching == {p \in ExistingPacks : p.name = Head(names)}
             rest == CheckConflicts(Tail(names))
         IN  IF matching = {} THEN rest
             ELSE { <<[name |-> p.name, existing_uuid |-> p.uuid,
                       existing_sample_count |-> p.sample_count]>> \o r :
                    p \in matching, r \in rest }

Range(seq) == {seq[i] : i \in 1..Len(seq)}

\* A Record<string, V> with key k set to v.
WithKey(rec, k, v) == [n \in DOMAIN rec \cup {k} |-> IF n = k THEN v ELSE rec[n]]

\* The record every conflict's name maps to action in (lines 135-139, 143-145).
AllDecisions(conflicts, action) == [n \in {c.name : c \in Range(conflicts)} |-> action]

\* One iteration of the loop of handleConflictConfirm (lines 334-336).
ReplaceMapStep(map, c, decisions) ==
    IF decisions[c.name] = "replace"
    THEN WithKey(map, c.name, c.existing_uuid)
    ELSE map

\* The loop of handleConflictConfirm over the conflicts (lines 332-337).
RECURSIVE BuildReplaceMap(_, _, _)
BuildReplaceMap(map, conflicts, decisions) ==
    IF conflicts = <<>> THEN map
    ELSE BuildReplaceMap(ReplaceMapStep(map, Head(conflicts), decisions),
                         Tail(conflicts), decisions)

EmptyRecord == [n \in {} |-> ""]

\* confirmFolderSelect (App.tsx lines 1222-1235) up to its await: the
\* dialog closes and import_external_folder is invoked with selectedPaths.
confirmFolderSelect(selectedPaths) ==
    /\ aFolderTree' = "none"
    /\ aImported' = selectedPaths

\* isChildOfAny (lines 27-32)
isChildOfAny(path, paths) ==
    \E p \in paths : p # path /\ StartsWith(path, p \o <<"/">>)

\* Faulty variant of ToggleSelect: selected descendants are not dropped.
ToggleSelectKeepChildren(path) ==
    /\ aFolderTree = "tree"
    /\ iStep = "tree"
    /\ ~(isChildOfAny(path, Range(iSelected)) /\ path \notin Range(iSelected))
    /\ iSelected' =
          IF path \in Range(iSelected)
          THEN LET P(p) == p # path IN SelectSeq(iSelected, P)
          ELSE LET NotParent(p) == ~StartsWith(path, p \o <<"/">>)
               IN  Append(SelectSeq(iSelected, NotParent), path)
    /\ UNCHANGED <<iStep, iConflicts, iDecisions, iConfirmed, iChecking, iCheck>>
    /\ UNCHANGED flowVars
    /\ UNCHANGED notImport

\* The checkbox of a tree node (lines 50-53, 77-82) and onToggleSelect
\* (lines 247-263): a selected path is removed; a new one first drops its
\* selected descendants and ancestors.
ToggleSelect(path) ==
    /\ aFolderTree = "tree"
    /\ iStep = "tree"
    /\ ~(isChildOfAny(path, Range(iSelected)) /\ path \notin Range(iSelected))
    /\ iSelected' =
          IF path \in Range(iSelected)
          THEN LET P(p) == p # path IN SelectSeq(iSelected, P)
          ELSE LET NotChild(p) == ~StartsWith(p, path \o <<"/">>)
                   NotParent(p) == ~StartsWith(path, p \o <<"/">>)
               IN  Append(SelectSeq(SelectSeq(iSelected, NotChild), NotParent), path)
    /\ UNCHANGED <<iStep, iConflicts, iDecisions, iConfirmed, iChecking, iCheck>>
    /\ UNCHANGED flowVars
    /\ UNCHANGED notImport

\* toggleAll (lines 298-301)
ToggleAll ==
    /\ aFolderTree = "tree"
    /\ iStep = "tree"
    /\ iSelected' = IF \A i \in 1..Len(FirstLevel) : FirstLevel[i] \in Range(iSelected)
                    THEN <<>> ELSE FirstLevel
    /\ UNCHANGED <<iStep, iConflicts, iDecisions, iConfirmed, iChecking, iCheck>>
    /\ UNCHANGED flowVars
    /\ UNCHANGED notImport

\* The state of a selector without a check_pack_name_conflicts call; a
\* call is pending with the paths of its click, then rejected or fulfilled.
NoCheck == [paths |-> <<>>, state |-> "none"]

\* handleImportClick (lines 304-326) up to its await: the button is
\* disabled without a selection and while checking (line 458); paths is
\* the selection of this moment and check_pack_name_conflicts is invoked
\* with its names.
ImportClick ==
    /\ aFolderTree = "tree"
    /\ iStep = "tree"
    /\ ~(Len(iSelected) = 0 \/ iChecking)
    /\ LET paths == iSelected
           names == [i \in 1..Len(paths) |-> folderNameFromPath(paths[i])]
       IN  /\ iChecking' = TRUE
           /\ iCheck' = [paths |-> paths, state |-> "pending"]
           /\ aChecked' = aChecked \cup Range(names)
    /\ UNCHANGED <<iStep, iSelected, iConflicts, iDecisions, iConfirmed>>
    /\ UNCHANGED <<aFolderTree, aImported, aStale>>
    /\ UNCHANGED notImport

\* Faulty variant of CheckReturn: the catch branch only logs the error.
CheckReturnNoImportOnFailure(failed) ==
    /\ aFolderTree = "tree"
    /\ iCheck.state = "pending"
    /\ LET paths == iCheck.paths
           names == [i \in 1..Len(paths) |-> folderNameFromPath(paths[i])]
       IN  \E result \in CheckConflicts(names) :
              /\ iCheck' = [paths |-> <<>>, state |-> IF failed THEN "rejected" ELSE "fulfilled"]
              /\ iChecking' = FALSE
              /\ IF failed
                 THEN UNCHANGED <<iStep, iConflicts, iDecisions, iConfirmed,
                                  aFolderTree, aImported>>
                 ELSE IF Len(result) > 0
                      THEN /\ iConflicts' = result
                           /\ iStep' = "conflict"
                           /\ iDecisions' = AllDecisions(result, "replace")
                           /\ UNCHANGED <<iConfirmed, aFolderTree, aImported>>
                      ELSE /\ iStep' = "importing"
                           /\ iConfirmed' = Append(iConfirmed,
                                  [paths |-> paths, replaceMap |-> EmptyRecord])
                           /\ confirmFolderSelect(paths)
                           /\ UNCHANGED <<iConflicts, iDecisions>>
    /\ UNCHANGED <<iSelected, aChecked, aStale>>
    /\ UNCHANGED notImport

\* The rest of handleImportClick (lines 310-325), when the call settles;
\* failed is the catch branch.  With conflicts, ConflictResolver mounts
\* with every decision "replace"; without, and after a failure, onConfirm
\* gets the paths of the click and an empty replace map.  finally clears
\* checking.
CheckReturn(failed) ==
    /\ aFolderTree = "tree"
    /\ iCheck.state = "pending"
    /\ LET paths == iCheck.paths
           names == [i \in 1..Len(paths) |-> folderNameFromPath(paths[i])]
       IN  \E result \in CheckConflicts(names) :
              /\ iCheck' = [paths |-> <<>>, state |-> IF failed THEN "rejected" ELSE "fulfilled"]
              /\ iChecking' = FALSE
              /\ IF ~failed /\ Len(result) > 0
                 THEN /\ iConflicts' = result
                      /\ iStep' = "conflict"
                      /\ iDecisions' = AllDecisions(result, "replace")
                      /\ UNCHANGED <<iConfirmed, aFolderTree, aImported>>
                 ELSE /\ iStep' = "importing"
                      /\ iConfirmed' = Append(iConfirmed,
                             [paths |-> paths, replaceMap |-> EmptyRecord])
                      /\ confirmFolderSelect(paths)
                      /\ UNCHANGED <<iConflicts, iDecisions>>
    /\ UNCHANGED <<iSelected, aChecked, aStale>>
    /\ UNCHANGED notImport

\* the two buttons of a conflict's row
SetDecision(i, action) ==
    /\ aFolderTree = "tree"
    /\ iStep = "conflict"
    /\ iDecisions' = WithKey(iDecisions, iConflicts[i].name, action)
    /\ UNCHANGED <<iStep, iSelected, iConflicts, iConfirmed, iChecking, iCheck>>
    /\ UNCHANGED flowVars
    /\ UNCHANGED notImport

\* setAll (lines 142-146)
SetAll(action) ==
    /\ aFolderTree = "tree"
    /\ iStep = "conflict"
    /\ iDecisions' = AllDecisions(iConflicts, action)
    /\ UNCHANGED <<iStep, iSelected, iConflicts, iConfirmed, iChecking, iCheck>>
    /\ UNCHANGED flowVars
    /\ UNCHANGED notImport

\* onBack (line 368): ConflictResolver unmounts and its decisions go
Back ==
    /\ aFolderTree = "tree"
    /\ iStep = "conflict"
    /\ iStep' = "tree"
    /\ iDecisions' = EmptyRecord
    /\ UNCHANGED <<iSelected, iConflicts, iConfirmed, iChecking, iCheck>>
    /\ UNCHANGED flowVars
    /\ UNCHANGED notImport

\* handleConflictConfirm (lines 329-342)
ConflictConfirm ==
    /\ aFolderTree = "tree"
    /\ iStep = "conflict"
    /\ iStep' = "importing"
    /\ iConfirmed' = <<[paths |-> iSelected,
                        replaceMap |-> BuildReplaceMap(EmptyRecord, iConflicts, iDecisions)]>>
    /\ UNCHANGED <<iSelected, iConflicts, iDecisions, iChecking, iCheck>>
    /\ confirmFolderSelect(iSelected)
    /\ UNCHANGED <<aChecked, aStale>>
    /\ UNCHANGED notImport

ImportIdle ==
    /\ aFolderTree = "tree"
    /\ aChecked = {}
    /\ aImported = <<>>
    /\ iStep = "tree"
    /\ iSelected = <<>>
    /\ iConflicts = <<>>
    /\ iDecisions = EmptyRecord
    /\ iConfirmed = <<>>
    /\ iChecking = FALSE
    /\ iCheck = NoCheck
    /\ aStale = {}

ImportInit == ImportIdle

ImportNext ==
    \/ \E path \in FolderPaths : ToggleSelect(path)
    \/ ToggleAll
    \/ ImportClick
    \/ \E failed \in BOOLEAN : CheckReturn(failed)
    \/ \E i \in 1..Len(iConflicts), action \in {"replace", "new"} : SetDecision(i, action)
    \/ \E action \in {"replace", "new"} : SetAll(action)
    \/ Back
    \/ ConflictConfirm

\* ---- App: the external folder import flow (App.tsx lines 1190-1235) ----

\* The folder of a scan whose tree has no children and holds audio files.
LeafPath == <<"u","/","X">>

\* What the folder dialog and scan_external_folder can come back with.
ScanOutcomes == {"dismissed", "scanFailed", "leaf", "tree"}

\* importExternalFolder (lines 1190-1214; handleExternalImport of
\* Waveform.tsx lines 175-190 has the same shape).  A dismissed dialog or a
\* failed scan ends the flow; a tree without children that holds audio is
\* imported at once with an empty replace map; any other tree is shown in
\* a newly mounted FolderTreeSelector.
OpenFolder(outcome) ==
    /\ aFolderTree = "none"
    /\ aChecked' = {}
    /\ IF outcome = "leaf"
       THEN /\ aImported' = <<LeafPath>>
            /\ UNCHANGED <<aFolderTree, importVars>>
       ELSE IF outcome = "tree"
            THEN /\ aFolderTree' = "tree"
                 /\ aImported' = <<>>
                 /\ iStep' = "tree"
                 /\ iSelected' = <<>>
                 /\ iConflicts' = <<>>
                 /\ iDecisions' = EmptyRecord
                 /\ iConfirmed' = <<>>
                 /\ iChecking' = FALSE
                 /\ iCheck' = NoCheck
            ELSE /\ aImported' = <<>>
                 /\ UNCHANGED <<aFolderTree, importVars>>
    /\ UNCHANGED aStale
    /\ UNCHANGED notImport

\* Bound of the model: the pending checks a cancel may leave behind.
MaxStale == 1

\* The selector unmounts without a call of onConfirm: its state is
\* gone, a pending check_pack_name_conflicts call of its
\* handleImportClick stays pending.
Unmounted ==
    /\ aStale' = aStale \cup (IF iCheck.state = "pending" THEN {iCheck.paths} ELSE {})
    /\ iStep' = "tree"
    /\ iSelected' = <<>>
    /\ iConflicts' = <<>>
    /\ iDecisions' = EmptyRecord
    /\ iConfirmed' = <<>>
    /\ iChecking' = FALSE
    /\ iCheck' = NoCheck

\* cancelFolderSelect (lines 1217-1219)
CancelFolderSelect ==
    /\ aFolderTree = "tree"
    /\ iCheck.state = "pending" => Cardinality(aStale) < MaxStale
    /\ aFolderTree' = "none"
    /\ Unmounted
    /\ UNCHANGED <<aChecked, aImported>>
    /\ UNCHANGED notImport

\* The check of an unmounted selector settles (FolderTreeSelector.tsx
\* lines 310-325): its state setters do nothing, but without conflicts
\* and after a failure its onConfirm still runs confirmFolderSelect,
\* which closes whatever selector is open.
StaleCheckReturn(paths, failed) ==
    /\ paths \in aStale
    /\ LET names == [i \in 1..Len(paths) |-> folderNameFromPath(paths[i])]
       IN  \E result \in CheckConflicts(names) :
              IF ~failed /\ Len(result) > 0
              THEN /\ aStale' = aStale \ {paths}
                   /\ UNCHANGED <<aFolderTree, aImported, importVars>>
              ELSE /\ confirmFolderSelect(paths)
                   /\ aStale' = (aStale \ {paths}) \cup
                         (IF iCheck.state = "pending" THEN {iCheck.paths} ELSE {})
                   /\ iCheck' = IF iCheck.state = "pending" THEN NoCheck ELSE iCheck
                   /\ iChecking' = FALSE
                   /\ UNCHANGED <<iStep, iSelected, iConflicts, iDecisions, iConfirmed>>
    /\ UNCHANGED aChecked
    /\ UNCHANGED notImport

FlowInit ==
    /\ aFolderTree = "none"
    /\ aChecked = {}
    /\ aImported = <<>>
    /\ iStep = "tree"
    /\ iSelected = <<>>
    /\ iConflicts = <<>>
    /\ iDecisions = EmptyRecord
    /\ iConfirmed = <<>>
    /\ iChecking = FALSE
    /\ iCheck = NoCheck
    /\ aStale = {}

FlowNext ==
    \/ \E outcome \in ScanOutcomes : OpenFolder(outcome)
    \/ CancelFolderSelect
    \/ \E paths \in aStale, failed \in BOOLEAN : StaleCheckReturn(paths, failed)
    \/ ImportNext

\* ---- App: the pack list, refreshLibrary and deletePack (lines 1125-1169) ----

\* Bound of the model: the number of refreshLibrary calls.
MaxRefreshes == 3

PackUuids == {"p1", "p2"}

\* refreshLibrary (lines 1125-1131) up to the invoke: scan_library is sent.
refreshLibrary ==
    /\ lLoading' = TRUE
    /\ lRefreshes' = Append(lRefreshes, [state |-> "sent", packs |-> {}])

\* refreshLibrary called by deleteSample (line 1152) or after an import
\* (lines 1202, 1228).
RefreshLibraryCall ==
    /\ Len(lRefreshes) < MaxRefreshes
    /\ refreshLibrary
    /\ UNCHANGED <<lDb, lPacks, lDeletes>>
    /\ UNCHANGED notLib

\* the backend serves a scan_library request: the packs of the catalog at
\* that moment
BackendScan(i) ==
    /\ lRefreshes[i].state = "sent"
    /\ lRefreshes' = [lRefreshes EXCEPT ![i] = [state |-> "scanned", packs |-> lDb]]
    /\ UNCHANGED <<lDb, lPacks, lLoading, lDeletes>>
    /\ UNCHANGED notLib

\* the promise of a scan_library request settles (lines 1128-1130): then
\* sets packs, catch only logs, finally clears libraryLoading.  Responses
\* arrive in any order.
RefreshSettle(i, ok) ==
    /\ lRefreshes[i].state = "scanned"
    /\ lRefreshes' = [lRefreshes EXCEPT ![i].state = IF ok THEN "done" ELSE "failed"]
    /\ lPacks' = IF ok THEN lRefreshes[i].packs ELSE lPacks
    /\ lLoading' = FALSE
    /\ UNCHANGED <<lDb, lDeletes>>
    /\ UNCHANGED notLib

\* deletePack (line 1156): delete_pack is sent for a listed pack
DeletePackInvoke(u) ==
    /\ u \in lPacks
    /\ lDeletes[u] = "none"
    /\ lDeletes' = [lDeletes EXCEPT ![u] = "sent"]
    /\ UNCHANGED <<lDb, lPacks, lLoading, lRefreshes>>
    /\ UNCHANGED notLib

\* the backend serves delete_pack: the pack leaves the catalog
BackendDelete(u) ==
    /\ lDeletes[u] = "sent"
    /\ lDb' = lDb \ {u}
    /\ lDeletes' = [lDeletes EXCEPT ![u] = "deleted"]
    /\ UNCHANGED <<lPacks, lLoading, lRefreshes>>
    /\ UNCHANGED notLib

\* deletePack after its await (lines 1157-1168): delete_pack has succeeded
\* and refreshLibrary is called
DeletePackReturn(u) ==
    /\ lDeletes[u] = "deleted"
    /\ Len(lRefreshes) < MaxRefreshes
    /\ lDeletes' = [lDeletes EXCEPT ![u] = "succeeded"]
    /\ refreshLibrary
    /\ UNCHANGED <<lDb, lPacks>>
    /\ UNCHANGED notLib

LibIdle ==
    /\ lDb = PackUuids
    /\ lPacks = PackUuids
    /\ lLoading = FALSE
    /\ lRefreshes = <<>>
    /\ lDeletes = [u \in PackUuids |-> "none"]

LibInit == LibIdle

LibNext ==
    \/ RefreshLibraryCall
    \/ \E i \in 1..Len(lRefreshes) : BackendScan(i)
    \/ \E i \in 1..Len(lRefreshes), ok \in BOOLEAN : RefreshSettle(i, ok)
    \/ \E u \in PackUuids : DeletePackInvoke(u)
    \/ \E u \in PackUuids : BackendDelete(u)
    \/ \E u \in PackUuids : DeletePackReturn(u)

\* ---- PackEditDialog and SampleEditDialog: handleSave ----

\* The result of parseInt on a string with no leading digits.
NaN == -2

Digits == <<"0","1","2","3","4","5","6","7","8","9">>
IsDigit(c) == \E d \in 1..10 : Digits[d] = c
DigitValue(c) == (CHOOSE d \in 1..10 : Digits[d] = c) - 1

\* String(n) for a number n >= 0
RECURSIVE NumberToString(_)
NumberToString(n) ==
    IF n < 10 THEN <<Digits[n + 1]>>
    ELSE NumberToString(n \div 10) \o <<Digits[(n % 10) + 1]>>

\* The value of the leading digits of str after acc, NaN if there is none.
RECURSIVE ParseDigits(_, _, _)
ParseDigits(str, acc, seen) ==
    IF Len(str) > 0 /\ IsDigit(str[1])
    THEN ParseDigits(Tail(str), acc * 10 + DigitValue(str[1]), TRUE)
    ELSE IF seen THEN acc ELSE NaN

\* parseInt(str, 10): leading white space is skipped.
RECURSIVE ParseInt(_)
ParseInt(str) ==
    IF Len(str) > 0 /\ str[1] = " " THEN ParseInt(Tail(str))
    ELSE ParseDigits(str, 0, FALSE)

\* A number as the JSON of the invoke carries it: NaN becomes null.
JsonNumber(n) == IF n = NaN THEN NullNum ELSE n

\* x || y on strings
OrElse(x, y) == IF Falsy(x) THEN y ELSE x

\* The packs and samples the dialogs are opened on: one with every field
\* set and one with every nullable field null.
EditEntities ==
    { [kind |-> "pack", name |-> <<"D","r">>, genre |-> <<"A">>],
      [kind |-> "pack", name |-> <<"D","r">>, genre |-> Null],
      [kind |-> "sample", filename |-> <<"K","i","c","k">>, tags |-> <<"f","x">>,
       genre |-> <<"A">>, audio_key |-> <<"C">>, chord_type |-> <<"m","i","n","o","r">>,
       bpm |-> 90, sample_type |-> <<"l","o","o","p">>],
      [kind |-> "sample", filename |-> <<"K","i","c","k">>, tags |-> Null,
       genre |-> Null, audio_key |-> Null, chord_type |-> Null,
       bpm |-> NullNum, sample_type |-> Null] }

\* The form as the effect sets it when the dialog opens
\* (PackEditDialog lines 32-37, SampleEditDialog lines 407-417).
FormOf(e) ==
    IF e.kind = "pack"
    THEN [name |-> OrEmpty(e.name), genre |-> OrEmpty(e.genre)]
    ELSE [filename |-> OrEmpty(e.filename), tags |-> OrEmpty(e.tags),
          genre |-> OrEmpty(e.genre), audioKey |-> OrEmpty(e.audio_key),
          chordType |-> OrEmpty(e.chord_type),
          bpm |-> IF e.bpm # NullNum THEN NumberToString(e.bpm) ELSE <<>>,
          sampleType |-> OrEmpty(e.sample_type)]

\* What the user can put into an input: nothing, a blank, a new text.
TextInputs == {<<>>, <<" ">>, <<"Z">>}
\* The options of a select: the empty option or a value.
SelectInputs == {<<>>, <<"Q">>}
\* The bpm input.
BpmInputs == {<<>>, <<" ">>, <<"7","2">>}

InputsOf(field) ==
    IF field \in {"audioKey", "chordType", "sampleType"} THEN SelectInputs
    ELSE IF field = "bpm" THEN BpmInputs
    ELSE TextInputs

\* Faulty variant of PackUpdate: the name is sent as typed.
PackUpdateNameRaw(pack, form) ==
    [kind |-> "pack",
     name |-> Trim(form.name),
     genre |-> OrElse(Trim(form.genre), Null)]

\* The update of PackEditDialog.handleSave (lines 43-47)
PackUpdate(pack, form) ==
    [kind |-> "pack",
     name |-> OrElse(Trim(form.name), pack.name),
     genre |-> OrElse(Trim(form.genre), Null)]

\* The update of SampleEditDialog.handleSave (part_001 lines 422-431)
SampleUpdate(sample, form) ==
    [kind |-> "sample",
     filename |-> OrElse(Trim(form.filename), sample.filename),
     tags |-> OrElse(Trim(form.tags), Null),
     genre |-> OrElse(Trim(form.genre), Null),
     audio_key |-> OrElse(form.audioKey, Null),
     chord_type |-> OrElse(form.chordType, Null),
     bpm |-> IF ~Falsy(form.bpm) THEN JsonNumber(ParseInt(form.bpm)) ELSE NullNum,
     sample_type |-> OrElse(form.sampleType, Null)]

\* update_pack / update_sample: a partial update applied field by field;
\* a field the update leaves null keeps its stored value.
ApplyUpdate(stored, update) ==
    [f \in DOMAIN stored |->
        IF f = "kind" THEN stored[f]
        ELSE IF f = "bpm"
             THEN (IF update[f] = NullNum THEN stored[f] ELSE update[f])
             ELSE (IF update[f] = Null THEN stored[f] ELSE update[f])]

\* an input's onChange
SetField(field, value) ==
    /\ eUpdated = <<>>
    /\ field \in DOMAIN eForm
    /\ eForm' = [eForm EXCEPT ![field] = value]
    /\ UNCHANGED <<eEntity, eUpdated>>
    /\ UNCHANGED notEdit

\* handleSave (PackEditDialog lines 39-56, SampleEditDialog lines 418-440);
\* a rejected invoke is only logged.
HandleSave(ok) ==
    /\ eUpdated = <<>>
    /\ LET update == IF eEntity.kind = "pack" THEN PackUpdate(eEntity, eForm)
                     ELSE SampleUpdate(eEntity, eForm)
       IN  eUpdated' = IF ok THEN <<ApplyUpdate(eEntity, update)>> ELSE <<>>
    /\ UNCHANGED <<eEntity, eForm>>
    /\ UNCHANGED notEdit

EditIdle ==
    /\ eEntity = [kind |-> "pack", name |-> <<"D","r">>, genre |-> Null]
    /\ eForm = FormOf(eEntity)
    /\ eUpdated = <<>>

EditInit ==
    /\ eEntity \in EditEntities
    /\ eForm = FormOf(eEntity)
    /\ eUpdated = <<>>

EditFields == {"name", "filename", "tags", "genre", "audioKey", "chordType", "bpm", "sampleType"}

EditNext ==
    \/ \E field \in EditFields : \E value \in InputsOf(field) : SetField(field, value)
    \/ \E ok \in BOOLEAN : HandleSave(ok)

\* ---- SampleBrowser sorted memo (lines 530-543, 1055-1068) ----

SampleById(i) == CHOOSE s \in SampleCatalog : s.id = i

\* The arrays the filtered memo yields as the filters change.
FilteredArrays ==
    { <<SampleById(1), SampleById(2), SampleById(3)>>,
      <<SampleById(4), SampleById(2)>>,
      <<SampleById(5), SampleById(1), SampleById(3), SampleById(4)>>,
      <<>> }

\* Faulty variant of SortedDepsChanged: shuffleSeed is not a dependency.
SortedDepsChangedNoSeed(old, new) ==
    \/ old.filtered # new.filtered
    \/ old.sortBy # new.sortBy
    \/ old.sortDir # new.sortDir

\* Whether a dependency of the sorted memo changed between two renders:
\* [filtered, sortBy, sortDir, shuffleSeed] (line 543).
SortedDepsChanged(old, new) ==
    \/ old.filtered # new.filtered
    \/ old.sortBy # new.sortBy
    \/ old.sortDir # new.sortDir
    \/ old.shuffleSeed # new.shuffleSeed

\* A render with the given dependencies: the sorted memo (lines 540-543)
\* runs sortSamples when a dependency changed and keeps its value otherwise.
SortedRender(filtered, sortBy, sortDir, shuffleSeed) ==
    LET old == [filtered |-> mFiltered, sortBy |-> mSortBy,
                sortDir |-> mSortDir, shuffleSeed |-> mShuffleSeed]
        new == [filtered |-> filtered, sortBy |-> sortBy,
                sortDir |-> sortDir, shuffleSeed |-> shuffleSeed]
    IN  /\ mFiltered' = filtered
        /\ mSortBy' = sortBy
        /\ mSortDir' = sortDir
        /\ mShuffleSeed' = shuffleSeed
        /\ IF SortedDepsChanged(old, new)
           THEN mSorted' \in sortSamples(filtered, sortBy, sortDir) /\ mRan' = TRUE
           ELSE mSorted' = mSorted /\ mRan' = FALSE

\* a click in the sort menu (lines 1055-1068); cleanSampleSearch stores an
\* undefined sortDir as the default "asc".
SortMenuClick(value) ==
    /\ IF value = "shuffle"
       THEN /\ mShuffleSeed < MaxShuffles
            /\ SortedRender(mFiltered, value, "asc", mShuffleSeed + 1)
       ELSE IF mSortBy = value
            THEN SortedRender(mFiltered, mSortBy,
                              IF mSortDir = "asc" THEN "desc" ELSE "asc", mShuffleSeed)
            ELSE SortedRender(mFiltered, value, "asc", mShuffleSeed)
    /\ UNCHANGED notMemo

\* a filter change that gives the filtered memo (lines 535-538) a new array
FilteredChange(filtered) ==
    /\ filtered # mFiltered
    /\ SortedRender(filtered, mSortBy, mSortDir, mShuffleSeed)
    /\ UNCHANGED notMemo

MemoIdle ==
    /\ mFiltered = <<>>
    /\ mSortBy = "filename"
    /\ mSortDir = "asc"
    /\ mShuffleSeed = 0
    /\ mSorted = <<>>
    /\ mRan = TRUE

\* The first render: shuffleSeed is 0 and the memo runs.
MemoInit ==
    /\ mFiltered \in FilteredArrays
    /\ mSortBy = "filename"
    /\ mSortDir = "asc"
    /\ mShuffleSeed = 0
    /\ mSorted \in sortSamples(mFiltered, mSortBy, mSortDir)
    /\ mRan = TRUE

MemoNext ==
    \/ \E value \in SortKeys : SortMenuClick(value)
    \/ \E filtered \in FilteredArrays : FilteredChange(filtered)

\* ---- SampleBrowser page index: buttons, arrow keys, autoplay, ----
\* ---- deletions and edits (lines 545-554, 708-783, 1523-1540)   ----

\* Bound of the model: the number of samples the page starts with.
PagerSize == 52

\* The samples a delete or an edit is applied to.
TouchedIds == {PagerSize - 1, PagerSize}

\* The rows of the displayed page that are clicked.
ClickedRows == {1, 2, PAGE_SIZE}

PagerLibrary == SubSeq(Library, 1, PagerSize)

\* sorted.length (lines 535-543): sortSamples returns a permutation of
\* filtered.  The order itself is not computed here; where currentSample
\* stands in a newly sorted list is left open (see PgResort).
SortedLength(samples, F) == Len(applyFilters(samples, F))

\* totalPages (line 548)
TotalPagesOf(n) == IF n = 0 THEN 1 ELSE (n + PAGE_SIZE - 1) \div PAGE_SIZE

\* displayed.length (line 549): sorted.slice(page * PAGE_SIZE, (page + 1) * PAGE_SIZE)
DisplayedLength(n, page) ==
    LET from == page * PAGE_SIZE
        to == IF (page + 1) * PAGE_SIZE < n THEN (page + 1) * PAGE_SIZE ELSE n
    IN  IF from >= to THEN 0 ELSE to - from

\* displayed.findIndex(...) of currentSample, -1 if it is not on the page
DisplayedIndex(curIdx, n, page) ==
    LET i == curIdx - page * PAGE_SIZE
    IN  IF curIdx >= 0 /\ i >= 0 /\ i < DisplayedLength(n, page) THEN i ELSE -1

PgLength == SortedLength(pgSamples, pgSearch)

\* Faulty variant of CanAdvancePage: the last page is not checked.
CanAdvancePageAlways(page, total) == TRUE

\* line 726: if (page < totalPages - 1)
CanAdvancePage(page, total) == page < total - 1

\* a click on a row of the displayed page: onPlaySample
PgRowClick(i) ==
    /\ i \in 1..DisplayedLength(PgLength, pgPage)
    /\ pgCurIdx' = pgPage * PAGE_SIZE + i - 1
    /\ UNCHANGED <<pgSamples, pgSearch, pgPage>>
    /\ UNCHANGED notPager

\* the keydown handler (lines 709-751), ArrowDown
PgArrowDown ==
    /\ DisplayedLength(PgLength, pgPage) # 0
    /\ LET pageStart == pgPage * PAGE_SIZE
           curIdx == DisplayedIndex(pgCurIdx, PgLength, pgPage)
       IN  IF curIdx < 0
           THEN pgCurIdx' = pageStart /\ pgPage' = pgPage
           ELSE IF curIdx >= DisplayedLength(PgLength, pgPage) - 1
                THEN IF CanAdvancePage(pgPage, TotalPagesOf(PgLength))
                     THEN /\ pgPage' = pgPage + 1
                          /\ pgCurIdx' = IF pageStart + PAGE_SIZE < PgLength
                                         THEN pageStart + PAGE_SIZE ELSE pgCurIdx
                     ELSE UNCHANGED <<pgPage, pgCurIdx>>
                ELSE pgCurIdx' = pageStart + curIdx + 1 /\ pgPage' = pgPage
    /\ UNCHANGED <<pgSamples, pgSearch>>
    /\ UNCHANGED notPager

\* the keydown handler (lines 709-751), ArrowUp
PgArrowUp ==
    /\ DisplayedLength(PgLength, pgPage) # 0
    /\ LET pageStart == pgPage * PAGE_SIZE
           curIdx == DisplayedIndex(pgCurIdx, PgLength, pgPage)
       IN  IF curIdx <= 0
           THEN IF pgPage > 0
                THEN pgPage' = pgPage - 1 /\ pgCurIdx' = pageStart - 1
                ELSE UNCHANGED <<pgPage, pgCurIdx>>
           ELSE pgCurIdx' = pageStart + curIdx - 1 /\ pgPage' = pgPage
    /\ UNCHANGED <<pgSamples, pgSearch>>
    /\ UNCHANGED notPager

\* the registerPlayNext callback (lines 764-781): the playing sample ended
PgAutoplayNext ==
    /\ PgLength # 0
    /\ ~(pgCurIdx < 0 \/ pgCurIdx >= PgLength - 1)
    /\ LET nextPage == (pgCurIdx + 1) \div PAGE_SIZE
       IN  pgPage' = IF nextPage # pgPage THEN nextPage ELSE pgPage
    /\ pgCurIdx' = pgCurIdx + 1
    /\ UNCHANGED <<pgSamples, pgSearch>>
    /\ UNCHANGED notPager

\* the page buttons (lines 1523-1540)
PgPrevPage ==
    /\ TotalPagesOf(PgLength) > 1
    /\ ~(pgPage <= 0)
    /\ pgPage' = pgPage - 1
    /\ UNCHANGED <<pgSamples, pgSearch, pgCurIdx>>
    /\ UNCHANGED notPager

PgNextPage ==
    /\ TotalPagesOf(PgLength) > 1
    /\ ~(pgPage >= TotalPagesOf(PgLength) - 1)
    /\ pgPage' = pgPage + 1
    /\ UNCHANGED <<pgSamples, pgSearch, pgCurIdx>>
    /\ UNCHANGED notPager

\* The sorted memo ran again (lines 540-543): currentSample is at any
\* index of the new list or not in it.
PgResort(n) == pgCurIdx' \in -1..(n - 1)

\* a change of the search params, then the render and its page effect
\* (lines 552-554)
PgFiltersChange(updates) ==
    \E keep \in BOOLEAN :
        LET next == cleanSampleSearch(pgSearch, updates)
        IN  /\ pgSearch' = next
            /\ pgPage' = IF PageEffectDeps(pgSearch, next, 0, 0, keep) THEN 0 ELSE pgPage
            /\ PgResort(SortedLength(pgSamples, next))
            /\ UNCHANGED pgSamples
            /\ UNCHANGED notPager

\* the sample type button (lines 1181-1185)
PgCycleType ==
    PgFiltersChange([type |-> IF pgSearch.type = "all" THEN "oneshot"
                              ELSE IF pgSearch.type = "oneshot" THEN "loop" ELSE "all"])

\* the selected sort key clicked again (lines 1060-1062)
PgSortDirClick ==
    PgFiltersChange([sortDir |-> IF pgSearch.sortDir = "asc" THEN "desc" ELSE "asc"])

RemoveId(samples, id) == SelectSeq(samples, LAMBDA s : s.id # id)

\* handleDeleteSample (part_004 lines 55-65) from a row's menu: the samples
\* prop becomes a new array, filtered is recomputed and the page effect runs.
PgDeleteSample(id) ==
    /\ \E i \in 1..Len(pgSamples) : pgSamples[i].id = id
    /\ DisplayedLength(PgLength, pgPage) # 0
    /\ pgSamples' = RemoveId(pgSamples, id)
    /\ PgResort(SortedLength(RemoveId(pgSamples, id), pgSearch))
    /\ pgPage' = 0
    /\ UNCHANGED pgSearch
    /\ UNCHANGED notPager

EditedType(samples, id, type) ==
    [i \in 1..Len(samples) |->
        IF samples[i].id = id THEN [samples[i] EXCEPT !.sample_type = type] ELSE samples[i]]

\* handleEditSample (part_004 lines 67-69) with a changed sample type: the
\* samples prop becomes a new array and the page effect runs.
PgEditSample(id, type) ==
    /\ \E i \in 1..Len(pgSamples) : pgSamples[i].id = id /\ pgSamples[i].sample_type # type
    /\ DisplayedLength(PgLength, pgPage) # 0
    /\ pgSamples' = EditedType(pgSamples, id, type)
    /\ PgResort(SortedLength(EditedType(pgSamples, id, type), pgSearch))
    /\ pgPage' = 0
    /\ UNCHANGED pgSearch
    /\ UNCHANGED notPager

PagerIdle ==
    /\ pgSamples = <<>>
    /\ pgSearch = EmptySearch
    /\ pgPage = 0
    /\ pgCurIdx = -1

PagerInit ==
    /\ pgSamples = PagerLibrary
    /\ pgSearch = EmptySearch
    /\ pgPage = 0
    /\ pgCurIdx = -1

PagerNext ==
    \/ \E i \in ClickedRows : PgRowClick(i)
    \/ PgArrowDown
    \/ PgArrowUp
    \/ PgAutoplayNext
    \/ PgPrevPage
    \/ PgNextPage
    \/ PgCycleType
    \/ PgSortDirClick
    \/ \E id \in TouchedIds : PgDeleteSample(id)
    \/ \E id \in TouchedIds : PgEditSample(id, "loop")

\* ---- PackDetailPage / PlaylistPage sample list (PackDetailPage.tsx ----
\* ---- lines 28-44, part_003 lines 528-560)                          ----

\* Bound of the model: the number of loads started.
MaxLoads == 3

\* The ids a route can carry.
RouteIds == {"a", "b", "c"}

\* samples = []
NoList == [owner |-> "", rows |-> "none"]

\* What get_pack_samples / get_playlist_samples answers for an id.
SamplesOf(id) == [owner |-> id, rows |-> "samples"]

\* The effect of lines 37-44 (loadSamples, part_003 lines 545-556) for the
\* id of the route: loading, an empty list, and the call.
LoadSamples(id) ==
    /\ dLoading' = TRUE
    /\ dSamples' = NoList
    /\ dLoads' = Append(dLoads, [id |-> id, state |-> "inflight"])

\* The route's id changes while the page stays mounted (a click on another
\* pack or playlist): the effect runs again.
RouteChange(id) ==
    /\ id # dRouteId
    /\ Len(dLoads) < MaxLoads
    /\ dRouteId' = id
    /\ LoadSamples(id)
    /\ UNCHANGED dPage
    /\ UNCHANGED notDetail

\* A call settles: .then(setSamples).catch(console.error)
\* .finally(() => setLoading(false))
LoadSettle(i, ok) ==
    /\ dLoads[i].state = "inflight"
    /\ dLoads' = [dLoads EXCEPT ![i].state = "done"]
    /\ dSamples' = IF ok THEN SamplesOf(dLoads[i].id) ELSE dSamples
    /\ dLoading' = FALSE
    /\ UNCHANGED <<dPage, dRouteId>>
    /\ UNCHANGED notDetail

DetailIdle ==
    /\ dPage = "pack"
    /\ dRouteId = ""
    /\ dLoads = <<>>
    /\ dSamples = NoList
    /\ dLoading = TRUE

\* The page has mounted and its effect has run.
DetailInit ==
    /\ dPage \in {"pack", "playlist"}
    /\ dRouteId \in RouteIds
    /\ dLoads = <<[id |-> dRouteId, state |-> "inflight"]>>
    /\ dSamples = NoList
    /\ dLoading = TRUE

DetailNext ==
    \/ \E id \in RouteIds : RouteChange(id)
    \/ \E i \in 1..Len(dLoads), ok \in BOOLEAN : LoadSettle(i, ok)

\* ---- Deleting while a sample is selected (App.tsx lines 1139-1169, ----
\* ---- part_003 lines 144-157)                                       ----

\* Bound of the model: the number of delete operations.
MaxDeletes == 2

\* The samples of the library and their packs.
SampleIds == {1, 2, 3}
PackOf(id) == IF id = 3 THEN "p2" ELSE "p1"

\* The samples a delete operation removes.
DeletedBy(del) ==
    IF del.kind = "sample" THEN {del.target}
    ELSE IF del.kind = "pack" THEN {id \in SampleIds : PackOf(id) = del.target}
    ELSE SampleIds

\* The targets a delete operation can be started for.
DeleteTargets ==
    {<<"sample", id>> : id \in SampleIds} \cup {<<"pack", u>> : u \in PackUuids}
        \cup {<<"all", 0>>}

\* playSample: a click on a sample the list still shows
SelectForPlay(id) ==
    /\ \/ id \in xDb
       \/ \E i \in 1..Len(xDeletes) : xDeletes[i].state # "done" /\ id \in DeletedBy(xDeletes[i])
    /\ xCurrent' = id
    /\ xPlaying' = TRUE
    /\ UNCHANGED <<xDb, xDeletes>>
    /\ UNCHANGED notPlayerDelete

\* stop (lines 790-800)
StopPlayback ==
    /\ xPlaying
    /\ xPlaying' = FALSE
    /\ UNCHANGED <<xDb, xCurrent, xDeletes>>
    /\ UNCHANGED notPlayerDelete

\* deleteSample / deletePack / handleDeleteAll up to the await: the
\* callback was created by the render of that moment and keeps its
\* currentSample.
DeleteInvoke(kind, target) ==
    /\ Len(xDeletes) < MaxDeletes
    /\ xDeletes' = Append(xDeletes, [kind |-> kind, target |-> target,
                                     currentSample |-> xCurrent, state |-> "invoked"])
    /\ UNCHANGED <<xDb, xCurrent, xPlaying>>
    /\ UNCHANGED notPlayerDelete

\* The backend runs delete_sample / delete_pack / delete_all_samples.
BackendRemove(i) ==
    /\ xDeletes[i].state = "invoked"
    /\ xDb' = xDb \ DeletedBy(xDeletes[i])
    /\ xDeletes' = [xDeletes EXCEPT ![i].state = "removed"]
    /\ UNCHANGED <<xCurrent, xPlaying>>
    /\ UNCHANGED notPlayerDelete

\* Whether the code after the await stops the player: the test on the
\* callback's currentSample (lines 1142, 1158); handleDeleteAll has none.
StopsPlayer(del) ==
    /\ del.kind # "all"
    /\ del.currentSample # 0
    /\ IF del.kind = "sample" THEN del.currentSample = del.target
       ELSE PackOf(del.currentSample) = del.target

\* The await returns and the rest of the handler runs.
DeleteReturn(i) ==
    /\ xDeletes[i].state = "removed"
    /\ xDeletes' = [xDeletes EXCEPT ![i].state = "done"]
    /\ IF StopsPlayer(xDeletes[i])
       THEN xPlaying' = FALSE /\ xCurrent' = 0
       ELSE UNCHANGED <<xPlaying, xCurrent>>
    /\ UNCHANGED xDb
    /\ UNCHANGED notPlayerDelete

PlayerDeleteIdle ==
    /\ xDb = SampleIds
    /\ xCurrent = 0
    /\ xPlaying = FALSE
    /\ xDeletes = <<>>

PlayerDeleteInit == PlayerDeleteIdle

PlayerDeleteNext ==
    \/ \E id \in SampleIds : SelectForPlay(id)
    \/ StopPlayback
    \/ \E t \in DeleteTargets : DeleteInvoke(t[1], t[2])
    \/ \E i \in 1..Len(xDeletes) : BackendRemove(i)
    \/ \E i \in 1..Len(xDeletes) : DeleteReturn(i)

\* ---- Startup: phase, library status and the first scan (App.tsx ----
\* ---- lines 97-125, 519-546, 1120-1131)                          ----

\* Bound of the model: the number of scan_library calls.
MaxScans == 3

\* The view App renders (lines 97-125).
ViewOf(phase, status) ==
    IF phase = "loading" THEN "loading"
    ELSE IF phase = "import" /\ status # "null" THEN "import"
    ELSE "shell"

\* invoke("scan_library") with setLibraryLoading(true) before it
\* (lines 541-545, 1126-1130)
StartScan ==
    /\ uLoading' = TRUE
    /\ uScans' = Append(uScans, "inflight")

\* The effect on [phase] (lines 539-546) after phase became next.
PhaseEffect(next) ==
    IF next = "ready" /\ next # uPhase
    THEN StartScan
    ELSE UNCHANGED <<uLoading, uScans>>

\* check_library_status returns or fails (lines 522-533).
CheckStatusReturn(outcome) ==
    /\ uCheck = "inflight"
    /\ uCheck' = "returned"
    /\ uStatus' = IF outcome = "failed" THEN uStatus ELSE outcome
    /\ uPhase' = IF outcome = "has_data" THEN "ready" ELSE "import"
    /\ PhaseEffect(IF outcome = "has_data" THEN "ready" ELSE "import")
    /\ UNCHANGED notStartup

\* onImportComplete (lines 1120-1122), called by the import screen
ImportComplete ==
    /\ ViewOf(uPhase, uStatus) = "import"
    /\ uPhase' = "ready"
    /\ PhaseEffect("ready")
    /\ UNCHANGED <<uStatus, uCheck>>
    /\ UNCHANGED notStartup

\* refreshLibrary (lines 1125-1131), called from the shell by a delete or
\* an import of an external folder
ShellRefresh ==
    /\ ViewOf(uPhase, uStatus) = "shell"
    /\ Len(uScans) < MaxScans
    /\ StartScan
    /\ UNCHANGED <<uPhase, uStatus, uCheck>>
    /\ UNCHANGED notStartup

\* A scan_library call settles: finally(() => setLibraryLoading(false))
ScanSettle(i, ok) ==
    /\ uScans[i] = "inflight"
    /\ uScans' = [uScans EXCEPT ![i] = IF ok THEN "ok" ELSE "failed"]
    /\ uLoading' = FALSE
    /\ UNCHANGED <<uPhase, uStatus, uCheck>>
    /\ UNCHANGED notStartup

StartupIdle ==
    /\ uPhase = "loading"
    /\ uStatus = "null"
    /\ uCheck = "inflight"
    /\ uLoading = TRUE
    /\ uScans = <<>>

\* The provider has mounted and its first effect has called
\* check_library_status.
StartupInit == StartupIdle

StartupNext ==
    \/ \E outcome \in {"has_data", "no_data", "failed"} : CheckStatusReturn(outcome)
    \/ ImportComplete
    \/ ShellRefresh
    \/ \E i \in 1..Len(uScans), ok \in BOOLEAN : ScanSettle(i, ok)

\* Every invoke settles; what the user does is not forced.
StartupFairness ==
    /\ WF_vars(\E outcome \in {"has_data", "no_data", "failed"} : CheckStatusReturn(outcome))
    /\ \A i \in 1..MaxScans :
          WF_vars(i \in 1..Len(uScans) /\ \E ok \in BOOLEAN : ScanSettle(i, ok))

\* ---- Reversed and chop playback over the decoded buffers (App.tsx ----
\* ---- lines 594-700, 707-800, 861-1034, 1072-1117)                 ----

\* startRevPlayback (lines 594-664) as called with a position that
\* leaves something to play: without a reversed buffer it returns,
\* otherwise the source plays the buffer the ref holds.
startRevPlayback ==
    IF rBuffer = NoPath
    THEN /\ UNCHANGED <<rRevSource, rPlaying>>
    ELSE /\ rRevSource' = rBuffer
         /\ rPlaying' = TRUE

\* playSample (lines 707-765), then the decode effect of lines 1072-1117
\* when currentSample.local_path changed: the earlier effect is cancelled
\* and a fetch for the new path starts; the buffer refs are left alone.
playSample(path) ==
    /\ IF rCurrent = path /\ rPlaying
       THEN /\ IF rReversed
               THEN \* pauseRevPlayback returns when there is no source
                    IF rRevSource = NoPath
                    THEN UNCHANGED <<rRevSource, rPlaying>>
                    ELSE rRevSource' = NoPath /\ rPlaying' = FALSE
               ELSE rPlaying' = FALSE /\ UNCHANGED rRevSource
            /\ UNCHANGED <<rCurrent, rPending, rDuration, rDecoding>>
       ELSE /\ rCurrent' = path
            /\ rDecoding' = IF rCurrent = path THEN rDecoding ELSE path
            /\ IF rReversed
               THEN IF rCurrent = path /\ rBuffer # NoPath
                    THEN /\ rRevSource' = rBuffer
                         /\ rPlaying' = TRUE
                         /\ rDuration' = TRUE
                         /\ UNCHANGED rPending
                    ELSE /\ rPending' = TRUE
                         /\ rPlaying' = TRUE
                         /\ rRevSource' = NoPath
                         /\ rDuration' = FALSE
               ELSE /\ rPlaying' = TRUE
                    /\ rRevSource' = NoPath
                    /\ rDuration' = FALSE
                    /\ UNCHANGED rPending
    /\ UNCHANGED <<rReversed, rBuffer, rChopSource>>
    /\ UNCHANGED notReverse

\* onMeta (lines 688-690): loadedmetadata of the current <audio>
onMeta ==
    /\ rCurrent # NoPath
    /\ ~rDuration
    /\ rDuration' = TRUE
    /\ UNCHANGED <<rCurrent, rReversed, rPlaying, rPending, rBuffer, rDecoding,
                   rRevSource, rChopSource>>
    /\ UNCHANGED notReverse

\* togglePlay (lines 767-788)
togglePlay ==
    /\ rCurrent # NoPath
    /\ IF rReversed
       THEN IF rPlaying
            THEN IF rRevSource = NoPath
                 THEN UNCHANGED <<rRevSource, rPlaying>>
                 ELSE rRevSource' = NoPath /\ rPlaying' = FALSE
            ELSE startRevPlayback
       ELSE rPlaying' = ~rPlaying /\ UNCHANGED rRevSource
    /\ UNCHANGED <<rCurrent, rReversed, rPending, rBuffer, rDecoding,
                   rDuration, rChopSource>>
    /\ UNCHANGED notReverse

\* stop (lines 790-800): stopRevPlayback, pause, isPlaying false
stop ==
    /\ rCurrent # NoPath
    /\ rRevSource' = NoPath
    /\ rPlaying' = FALSE
    /\ UNCHANGED <<rCurrent, rReversed, rPending, rBuffer, rDecoding,
                   rDuration, rChopSource>>
    /\ UNCHANGED notReverse

\* The reversed source or the <audio> element reaches its end
\* (source.onended of lines 654-662, onEnded of lines 692-696).
PlaybackEnded ==
    /\ rPlaying
    /\ rReversed => rRevSource # NoPath
    /\ rRevSource' = NoPath
    /\ rPlaying' = FALSE
    /\ UNCHANGED <<rCurrent, rReversed, rPending, rBuffer, rDecoding,
                   rDuration, rChopSource>>
    /\ UNCHANGED notReverse

\* setReversedValue (lines 861-938).  atEnd: the mapped position leaves
\* nothing of the buffer to play, so startRevPlayback stops instead.
setReversedValue(val, atEnd) ==
    /\ val # rReversed
    /\ rReversed' = val
    /\ rChopSource' = NoPath
    /\ IF ~rPlaying \/ ~(rDuration \/ rBuffer # NoPath)
       THEN /\ rPlaying' = FALSE
            /\ rRevSource' = NoPath
            /\ UNCHANGED rPending
       ELSE IF val
            THEN IF rBuffer # NoPath
                 THEN /\ rRevSource' = IF atEnd THEN NoPath ELSE rBuffer
                      /\ rPlaying' = ~atEnd
                      /\ UNCHANGED rPending
                 ELSE /\ rPending' = TRUE
                      /\ rPlaying' = TRUE
                      /\ rRevSource' = NoPath
            ELSE /\ rPlaying' = TRUE
                 /\ rRevSource' = NoPath
                 /\ UNCHANGED rPending
    /\ UNCHANGED <<rCurrent, rBuffer, rDecoding, rDuration>>
    /\ UNCHANGED notReverse

\* The promise chain of the decode effect settles (lines 1085-1112): a
\* cancelled effect is not modelled, rDecoding is the live one.  On
\* success both buffer refs are replaced and a pending reversed play
\* starts; a failure is logged.
DecodeSettle(ok) ==
    /\ rDecoding # NoPath
    /\ rDecoding' = NoPath
    /\ IF ok
       THEN /\ rBuffer' = rDecoding
            /\ IF rPending
               THEN /\ rPending' = FALSE
                    /\ rDuration' = TRUE
                    /\ rRevSource' = rDecoding
                    /\ rPlaying' = TRUE
               ELSE UNCHANGED <<rPending, rDuration, rRevSource, rPlaying>>
       ELSE UNCHANGED <<rBuffer, rPending, rDuration, rRevSource, rPlaying>>
    /\ UNCHANGED <<rCurrent, rReversed, rChopSource>>
    /\ UNCHANGED notReverse

\* playChopSegment (lines 943-1022), called by the Player's pad keys
\* and pad clicks while chop mode is on and duration is set
\* (Waveform.tsx lines 464-518).  Without a decoded buffer the
\* non-reversed case falls back to the <audio> of the current sample.
playChopSegment ==
    /\ rCurrent # NoPath
    /\ rDuration
    /\ rRevSource' = NoPath
    /\ IF rBuffer = NoPath
       THEN IF ~rReversed
            THEN rChopSource' = rCurrent /\ rPlaying' = TRUE
            ELSE UNCHANGED <<rChopSource, rPlaying>>
       ELSE rChopSource' = rBuffer /\ rPlaying' = TRUE
    /\ UNCHANGED <<rCurrent, rReversed, rPending, rBuffer, rDecoding, rDuration>>
    /\ UNCHANGED notReverse

\* stopChop (lines 1024-1034)
stopChop ==
    /\ rChopSource # NoPath
    /\ rChopSource' = NoPath
    /\ rPlaying' = FALSE
    /\ UNCHANGED <<rCurrent, rReversed, rPending, rBuffer, rDecoding,
                   rDuration, rRevSource>>
    /\ UNCHANGED notReverse

\* deleteSample of the current sample (lines 1139-1153): currentSample
\* becomes null and the decode effect clears both buffer refs.
ClearCurrent ==
    /\ rCurrent # NoPath
    /\ rCurrent' = NoPath
    /\ rPlaying' = FALSE
    /\ rBuffer' = NoPath
    /\ rDecoding' = NoPath
    /\ UNCHANGED <<rReversed, rPending, rDuration, rRevSource, rChopSource>>
    /\ UNCHANGED notReverse

ReverseIdle ==
    /\ rCurrent = NoPath
    /\ rReversed = FALSE
    /\ rPlaying = FALSE
    /\ rPending = FALSE
    /\ rBuffer = NoPath
    /\ rDecoding = NoPath
    /\ rRevSource = NoPath
    /\ rDuration = FALSE
    /\ rChopSource = NoPath

ReverseInit == ReverseIdle

ReverseNext ==
    \/ \E path \in Paths : playSample(path)
    \/ onMeta
    \/ togglePlay
    \/ stop
    \/ PlaybackEnded
    \/ \E val \in BOOLEAN, atEnd \in BOOLEAN : setReversedValue(val, atEnd)
    \/ \E ok \in BOOLEAN : DecodeSettle(ok)
    \/ playChopSegment
    \/ stopChop
    \/ ClearCurrent

(***************************************************************************)
(* Claims on Part II                                                       *)
(***************************************************************************)

\* What each filter category asks of a sample, when the category is active.
C7_TextOk(s, F) ==
    \/ Includes(ToLowerCase(s.filename), ToLowerCase(F.q))
    \/ (s.pack_name # Null /\ Includes(ToLowerCase(s.pack_name), ToLowerCase(F.q)))
    \/ (s.tags # Null /\ Includes(ToLowerCase(s.tags), ToLowerCase(F.q)))

C7_GenreOk(s, F) == \E g \in F.genres : g # Null /\ g = EffectiveGenre(s)

C7_BpmOk(s, F) == s.bpm # NullNum /\ F.bpmMin <= s.bpm /\ s.bpm <= F.bpmMax

C7_KeyOk(s, F) == \E k \in F.keys : k # Null /\ k = formatKey(s.audio_key, s.chord_type)

C7_TypeOk(s, F) == s.sample_type = F.type

C7_Tags(s) == IF Falsy(s.tags) THEN {} ELSE {TagList(s.tags)[i] : i \in 1..Len(TagList(s.tags))}

C7_InstrumentOk(s, F) == \E t \in F.instruments : t \in C7_Tags(s)

C7_IncludeOk(s, F) == \E t \in F.include : t \in C7_Tags(s)

C7_ExcludeOk(s, F) == \A t \in F.exclude : t \notin C7_Tags(s)

C7_Satisfies(s, F) ==
    /\ Len(F.q) >= 2 => C7_TextOk(s, F)
    /\ F.genres # {} => C7_GenreOk(s, F)
    /\ BpmRangeActive(F) => C7_BpmOk(s, F)
    /\ F.keys # {} => C7_KeyOk(s, F)
    /\ F.type # "all" => C7_TypeOk(s, F)
    /\ F.instruments # {} => C7_InstrumentOk(s, F)
    /\ F.include # {} => C7_IncludeOk(s, F)
    /\ F.exclude # {} => C7_ExcludeOk(s, F)

\* C7: applyFilters returns exactly the input samples that satisfy every
\* active filter category at once (any one selected value suffices within a
\* category, an inactive category restricts nothing), in the input's order.
C7_FiltersComposeByAnd ==
    fDone => LET P(s) == C7_Satisfies(s, fFilters) IN fOut = SelectSeq(fSamples, P)

\* A list of two samples filtered with at least three categories active,
\* one sample kept and one dropped.
C7_Witness ==
    /\ fDone
    /\ Len(fSamples) = 2 /\ Len(fOut) = 1
    /\ Len(fFilters.q) >= 2 /\ fFilters.genres # {} /\ fFilters.exclude # {}
    /\ BpmRangeActive(fFilters)

\* The sort key of a sample in the result, for sortBy bpm or duration.
C8_Key(s) == IF sBy = "bpm" THEN s.bpm ELSE s.duration

\* C8: sorting by bpm or duration puts every sample with a null key after
\* all samples with a non-null key, in both directions, and orders the
\* non-null samples by value according to the direction.
C8_NullsLast ==
    (sDone /\ sBy \in {"bpm", "duration"}) =>
        /\ Len(sOut) = Len(sIn)
        /\ \A i, j \in 1..Len(sOut) :
              i < j =>
                /\ C8_Key(sOut[i]) = NullNum => C8_Key(sOut[j]) = NullNum
                /\ (C8_Key(sOut[i]) # NullNum /\ C8_Key(sOut[j]) # NullNum) =>
                      IF sDir = "desc" THEN C8_Key(sOut[i]) >= C8_Key(sOut[j])
                      ELSE C8_Key(sOut[i]) <= C8_Key(sOut[j])

\* A descending bpm sort of a list that starts with two different null-bpm
\* samples followed by samples with a bpm.
C8_Witness ==
    /\ sDone /\ sBy = "bpm" /\ sDir = "desc"
    /\ Len(sIn) = 4
    /\ sIn[1].bpm = NullNum /\ sIn[2].bpm = NullNum /\ sIn[1] # sIn[2]
    /\ sIn[3].bpm # NullNum /\ sIn[4].bpm > sIn[3].bpm

\* C9: the page index is 0 after any filter change and after any sort
\* change (sort key, sort direction, or a new shuffle request).
C9_PageResetOnChange ==
    [][(bSearch' # bSearch \/ bShuffleSeed' # bShuffleSeed) => bPage' = 0]_browserVars

\* C10: the replace map handed to the import holds name -> existing_uuid
\* for every reported conflict decided "replace", and no entry for a
\* conflict decided "add new" nor for a selected folder without a conflict.
C10_ReplaceMapMatchesDecisions ==
    [][(iStep = "conflict" /\ iStep' = "importing") =>
          LET map == iConfirmed'[1].replaceMap
          IN  /\ \A i \in 1..Len(iConflicts) :
                    LET c == iConflicts[i]
                    IN  IF iDecisions[c.name] = "replace"
                        THEN c.name \in DOMAIN map /\ map[c.name] = c.existing_uuid
                        ELSE c.name \notin DOMAIN map
              /\ \A p \in Range(iConfirmed'[1].paths) :
                    (\A i \in 1..Len(iConflicts) :
                        iConflicts[i].name # folderNameFromPath(p))
                       => folderNameFromPath(p) \notin DOMAIN map]_importVars

\* C11: import_external_folder is invoked for a folder only if
\* check_pack_name_conflicts was called with that folder's prospective
\* pack name earlier in the same import flow.
C11_ImportOnlyAfterConflictCheck ==
    \A i \in 1..Len(aImported) : folderNameFromPath(aImported[i]) \in aChecked

\* C12: once delete_pack(uuid) has succeeded and every library refresh
\* started so far has completed with its response, the pack list held by
\* the app does not contain that pack.
C12_DeletedPackNotListed ==
    \A u \in PackUuids :
        (/\ lDeletes[u] = "succeeded"
         /\ \A i \in 1..Len(lRefreshes) : lRefreshes[i].state = "done")
            => u \notin lPacks

\* The stored field an input of the form edits.
C13_StoredField(field) ==
    IF field = "audioKey" THEN "audio_key"
    ELSE IF field = "chordType" THEN "chord_type"
    ELSE IF field = "sampleType" THEN "sample_type"
    ELSE field

C14_FailureStep ==
    [][\A r \in ReqIds :
          (reqs[r].kind = "mini" /\ reqs[r].state = "inflight"
             /\ reqs'[r].state = "done" /\ reqs'[r].failed) =>
              /\ activeReqs' = activeReqs - 1
              /\ timeouts' = timeouts + 1
              /\ queue' = queue
              /\ rows[reqs[r].path].req = r =>
                    /\ rows'[reqs[r].path].mounted
                    /\ rows'[reqs[r].path].data = NoData]_waveVars

\* C14, the queue is not wedged: a request that waits in the queue is
\* started or skipped later, whatever became of the decodes before it.
C14_PendingProcessed ==
    \A r \in 1..MaxReqs :
        [](r \in ReqIds /\ reqs[r].state = "queued"
              => <>(r \in ReqIds /\ reqs[r].state # "queued"))

\* C14: a failed waveform decode leaves the requester in the displayable
\* state without a waveform, releases the decode slot, and the pending
\* requests are still processed.
C14_FailedDecodeDoesNotWedge == C14_FailureStep /\ C14_PendingProcessed

\* A row's decode failed, the row shows no waveform, and a request that was
\* enqueued behind it has been started since.
C14_Witness ==
    \E r1, r2 \in ReqIds :
        /\ reqs[r1].kind = "mini" /\ reqs[r1].failed
        /\ rows[reqs[r1].path].mounted /\ rows[reqs[r1].path].data = NoData
        /\ reqs[r2].kind = "mini" /\ reqs[r2].seq > reqs[r1].seq /\ reqs[r2].invoked

\* The trimmed, comma-split tags of a sample; none for a sample without tags.
C15_TagSet(s) ==
    IF s.tags = Null \/ s.tags = <<>> THEN {}
    ELSE {Trim(Split(s.tags)[i]) : i \in 1..Len(Split(s.tags))}

C15_Passes(s) ==
    /\ fFilters.include # {} => C15_TagSet(s) \cap fFilters.include # {}
    /\ fFilters.exclude # {} => C15_TagSet(s) \cap fFilters.exclude = {}

\* C15: the include and exclude sets are applied independently: of the
\* samples the other filters keep, the result holds those whose tag list
\* shares a tag with a non-empty include set and shares none with a
\* non-empty exclude set; a sample without tags fails include, passes exclude.
C15_IncludeExcludeIndependent ==
    fDone =>
        fOut = SelectSeq(applyFilters(fSamples, [fFilters EXCEPT !.include = {}, !.exclude = {}]),
                         C15_Passes)

\* Both tag sets are set; a sample that has an included and an excluded tag
\* is dropped and one whose tag needs trimming is kept.
C15_Witness ==
    /\ fDone /\ fFilters.include # {} /\ fFilters.exclude # {}
    /\ \E i \in 1..Len(fSamples) :
          /\ C15_TagSet(fSamples[i]) \cap fFilters.include # {}
          /\ C15_TagSet(fSamples[i]) \cap fFilters.exclude # {}
    /\ Len(fOut) = 1 /\ fOut[1].tags = <<" ","f","x"," ">>

C16_Passes(s) ==
    (fFilters.bpmMin # NullNum /\ fFilters.bpmMax # NullNum) =>
        (s.bpm # NullNum /\ fFilters.bpmMin <= s.bpm /\ s.bpm <= fFilters.bpmMax)

\* C16: with a BPM range active a sample passes iff its bpm is non-null
\* and min <= bpm <= max; without an active range null-bpm samples are kept.
C16_BpmRangeInclusive ==
    fDone =>
        fOut = SelectSeq(applyFilters(fSamples, [fFilters EXCEPT !.bpmMin = NullNum,
                                                                  !.bpmMax = NullNum]),
                         C16_Passes)

\* A range is active; a sample at the upper bound is kept and a null-bpm
\* sample of the input is dropped.
C16_Witness ==
    /\ fDone /\ BpmRangeActive(fFilters)
    /\ \E i \in 1..Len(fSamples) : fSamples[i].bpm = NullNum
    /\ Len(fOut) = 1
    /\ fOut[1].bpm = fFilters.bpmMax

C17_Passes(s) ==
    Len(fFilters.q) >= 2 =>
        \/ Includes(ToLowerCase(s.filename), ToLowerCase(fFilters.q))
        \/ s.pack_name # Null /\ Includes(ToLowerCase(s.pack_name), ToLowerCase(fFilters.q))
        \/ s.tags # Null /\ Includes(ToLowerCase(s.tags), ToLowerCase(fFilters.q))

\* C17: a query of at least 2 characters keeps the samples with the query
\* as a case-insensitive substring of filename, pack name or raw tags; a
\* query of 0 or 1 characters filters nothing.
C17_QueryNeedsTwoChars ==
    fDone => fOut = SelectSeq(applyFilters(fSamples, [fFilters EXCEPT !.q = <<>>]), C17_Passes)

\* A two-character upper-case query kept a sample through its pack name
\* only and dropped another sample.
C17_Witness ==
    /\ fDone /\ Len(fFilters.q) = 2 /\ ToLowerCase(fFilters.q) # fFilters.q
    /\ Len(fSamples) = 2 /\ Len(fOut) = 1
    /\ ~Includes(ToLowerCase(fOut[1].filename), ToLowerCase(fFilters.q))
    /\ fOut[1].pack_name # Null
    /\ Includes(ToLowerCase(fOut[1].pack_name), ToLowerCase(fFilters.q))

\* The include and exclude sets after three cycles of one tag.
C18_ThreeCycles(includeTags, excludeTags, tag) ==
    LET a == cycleTag(includeTags, excludeTags, tag)
        b == cycleTag(a.include, a.exclude, tag)
    IN  cycleTag(b.include, b.exclude, tag)

\* C18: after any sequence of cycle and remove actions no tag is in both
\* the include and the exclude set, and three consecutive cycles of one tag
\* give back the include and exclude sets they started from.
C18_TagCycle ==
    /\ bSearch.include \cap bSearch.exclude = {}
    /\ \A tag \in BrowserTags :
          C18_ThreeCycles(bSearch.include, bSearch.exclude, tag)
              = [include |-> bSearch.include, exclude |-> bSearch.exclude]

\* One tag was cycled to exclude while another one is included.
C18_Witness ==
    /\ bSearch.include = {<<"f","x">>}
    /\ bSearch.exclude = {<<"d","a","r","k">>}

\* Whether two arrays hold the same samples the same number of times.
C19_IsPermutation(a, b) ==
    /\ Len(a) = Len(b)
    /\ \A s \in SampleCatalog :
          Cardinality({i \in 1..Len(a) : a[i] = s}) = Cardinality({i \in 1..Len(b) : b[i] = s})

\* With sort key shuffle the sorted list is a permutation of the filtered
\* array and the arrays sortSamples can return do not depend on sortDir.
C19_ShuffleIsPermutation ==
    mSortBy = "shuffle" =>
        /\ C19_IsPermutation(mSorted, mFiltered)
        /\ \A dir \in SortDirs :
              sortSamples(mFiltered, mSortBy, dir) = sortSamples(mFiltered, mSortBy, mSortDir)

\* A shuffle request makes the memo run sortSamples again.
C19_RequestDraws ==
    [][mShuffleSeed' # mShuffleSeed => (mRan' /\ mSortBy' = "shuffle")]_memoVars

\* C19: with sort key shuffle the sorted list is a permutation of the
\* filtered set, the ascending/descending direction has no effect, and a
\* new order is drawn on each explicit shuffle request.
C19_Shuffle == []C19_ShuffleIsPermutation /\ C19_RequestDraws

\* The second shuffle request in a row drew an order of three samples that
\* differs from the filtered order.
C19_Witness ==
    /\ mSortBy = "shuffle" /\ mShuffleSeed = 2 /\ mRan
    /\ Len(mFiltered) = 3 /\ mSorted # mFiltered

\* The tasks _processQueue started whose promise has not settled yet.
C20_RunningTasks ==
    {r \in ReqIds : reqs[r].kind = "mini" /\ reqs[r].started /\ reqs[r].state = "inflight"}

\* C20: the mini-waveform queue never runs more than one task at a time:
\* 0 <= _activeReqs <= 1 and _activeReqs is the number of tasks started by
\* _processQueue whose promise has not settled, also when _enqueue runs
\* between the completion of a task and the deferred _processQueue.
C20_ActiveReqsCountsRunningTasks ==
    /\ 0 <= activeReqs /\ activeReqs <= 1
    /\ activeReqs = Cardinality(C20_RunningTasks)

\* A task completed, and before the deferred _processQueue ran, _enqueue
\* started the next task: the slot is taken while the timeout is pending
\* and another item waits in the queue.
C20_Witness ==
    /\ timeouts > 0 /\ activeReqs = 1
    /\ \E r \in ReqIds : reqs[r].kind = "mini" /\ reqs[r].state = "done" /\ reqs[r].invoked
    /\ Cardinality(C20_RunningTasks) = 1

\* C21, no idle slot over pending work: while the queue holds an item that
\* is not cancelled, a task is running or a deferred _processQueue is due.
C21_NoIdleSlotWithPending ==
    (\E i \in 1..Len(queue) : ~reqs[queue[i]].itemCancelled) =>
        (activeReqs > 0 \/ timeouts > 0)

\* C21, progress: a request that was enqueued is later started, unless it
\* is cancelled.
C21_EnqueuedStarted ==
    \A r \in 1..MaxReqs :
        (r \in ReqIds /\ reqs[r].kind = "mini" /\ reqs[r].seq > 0)
            ~> (r \in ReqIds /\ (reqs[r].started \/ reqs[r].cancelled))

\* C21: every waveform request that was enqueued and is never cancelled is
\* eventually started, given that every started task settles and finitely
\* many requests are enqueued; the queue never holds an uncancelled pending
\* request while the decode slot stays idle.
C21_EnqueuedEventuallyStarted == []C21_NoIdleSlotWithPending /\ C21_EnqueuedStarted

\* Two requests were enqueued and neither was cancelled; the first has
\* settled and the second, enqueued behind it, has been started.
C21_Witness ==
    \E r1, r2 \in ReqIds :
        /\ reqs[r1].kind = "mini" /\ reqs[r1].seq = 1 /\ reqs[r1].state = "done"
        /\ reqs[r2].kind = "mini" /\ reqs[r2].seq = 2 /\ reqs[r2].state = "inflight"
        /\ ~reqs[r1].itemCancelled /\ ~reqs[r2].itemCancelled
        /\ queue = <<>> /\ timeouts = 0

\* C22: the page index p satisfies 0 <= p < max(1, ceil(n / 50)) for the
\* size n of the filtered and sorted set, after any sequence of filter and
\* sort changes, deletions, edits, page buttons, arrow keys and autoplay
\* advances; the displayed page holds at most 50 samples and is non-empty
\* whenever n > 0.
C22_PageInRange ==
    /\ 0 <= pgPage /\ pgPage < TotalPagesOf(PgLength)
    /\ DisplayedLength(PgLength, pgPage) <= PAGE_SIZE
    /\ PgLength > 0 => DisplayedLength(PgLength, pgPage) > 0

\* After a deletion the set holds exactly one sample more than a page, and
\* an arrow key or autoplay advanced to that sample on the second page.
C22_Witness ==
    /\ pgPage = 1 /\ PgLength = PAGE_SIZE + 1
    /\ Len(pgSamples) < PagerSize
    /\ pgCurIdx = PAGE_SIZE

\* C23: the player's waveformData is null or the waveform of the path of
\* the currently selected sample; a get_waveform response for a sample
\* selected earlier never overwrites it.
C23_PlayerWaveformIsCurrent ==
    waveformData = NoData \/ waveformData.path = currentPath

\* The response for a sample selected earlier arrived after the selection
\* changed and was discarded; the waveform of the current sample is shown.
C23_Witness ==
    /\ waveformData # NoData
    /\ \E r \in ReqIds :
          /\ reqs[r].kind = "player" /\ reqs[r].state = "done" /\ ~reqs[r].failed
          /\ reqs[r].cancelled /\ reqs[r].path # currentPath
    /\ \A r \in ReqIds : reqs[r].kind = "player" /\ reqs[r].state = "done"

\* C24: the sample list shown on the pack detail page and on the playlist
\* page belongs to the id of the route; a response for an earlier id that
\* arrives after the id changed does not replace the list.
C24_ListBelongsToRoute ==
    dSamples = NoList \/ dSamples.owner = dRouteId

\* C25: when a delete operation (one sample, a pack, all samples) has
\* completed, the player's current sample is not a deleted sample and
\* playback of a deleted sample has been stopped, also when the sample was
\* selected while the delete request was in flight.
C25_DeletedSampleNotCurrent ==
    [][\A i \in 1..Len(xDeletes) :
          (xDeletes[i].state # "done" /\ xDeletes'[i].state = "done") =>
              /\ xCurrent' \notin DeletedBy(xDeletes[i])
              /\ xCurrent \in DeletedBy(xDeletes[i]) => ~xPlaying']_playerDeleteVars

\* C26, the app leaves the loading phase.
C26_LeavesLoading == <>(uPhase # "loading")

\* C26, the shell is only shown with a library scan started.
C26_ShellHasScan == ViewOf(uPhase, uStatus) = "shell" => Len(uScans) > 0

\* C26, in the shell libraryLoading becomes false.
C26_ShellStopsLoading == (ViewOf(uPhase, uStatus) = "shell") ~> ~uLoading

\* C26: after startup the app leaves the loading phase, and whenever the
\* main library shell is shown a library scan has been started, so that
\* libraryLoading eventually becomes false, also when check_library_status
\* fails.
C26_StartupReachesLoadedShell ==
    C26_LeavesLoading /\ []C26_ShellHasScan /\ C26_ShellStopsLoading

\* Whether folder p lies above folder q in the tree: the components of p
\* are a proper prefix of the components of q.
C27_ProperAncestor(p, q) ==
    /\ Len(SplitPath(p)) < Len(SplitPath(q))
    /\ SubSeq(SplitPath(q), 1, Len(SplitPath(p))) = SplitPath(p)

\* The folders whose audio files total_audio_count of a node counts.
C27_CountedFolders(p) == {p} \cup {q \in FolderPaths : C27_ProperAncestor(p, q)}

C28_DecodeStartsReversed ==
    /\ rDecoding # NoPath
    /\ rDecoding' = NoPath
    /\ rBuffer' = rDecoding
    /\ rPending
    /\ rRevSource' # NoPath

C28_ReversedStartNeedsModeAndPlaying ==
    [][C28_DecodeStartsReversed => (rReversed /\ rPlaying)]_reverseVars

\* C29: the audio a chop segment plays is audio of the currently selected
\* sample, also between the selection of a new sample and the completion
\* of its decode.
C29_ChopPlaysCurrentSample ==
    [][(rDuration /\ rChopSource' # NoPath /\ rChopSource' # rChopSource) =>
           rChopSource' = rCurrent]_reverseVars

\* C30: when the pack-name conflict check of a selector fails, the
\* selector proceeds to the import, calling onConfirm once, with the paths
\* selected at the click and an empty replace map, which import_external_folder
\* receives; the selector calls onConfirm at most once; and checking is
\* true only while the check is pending, so it is false again once the
\* check has succeeded or failed.
C30_CheckFailed == iCheck.state = "pending" /\ iCheck'.state = "rejected"

C30_CheckSettled == iCheck.state = "pending" /\ iCheck'.state \in {"rejected", "fulfilled"}

C30_FailedCheckStillImports ==
    /\ [](Len(iConfirmed) <= 1 /\ (iChecking => iCheck.state = "pending"))
    /\ [][/\ C30_CheckSettled => ~iChecking'
          /\ C30_CheckFailed =>
                /\ iStep' = "importing"
                /\ iConfirmed = <<>>
                /\ iConfirmed' = <<[paths |-> iCheck.paths, replaceMap |-> EmptyRecord]>>
                /\ aImported' = iCheck.paths]_<<importVars, flowVars>>

\* A check for r/a/X and r/b, of which X names existing packs, has failed
\* and both folders are imported with nothing replaced.
C30_Witness ==
    /\ iCheck.state = "rejected"
    /\ ~iChecking
    /\ iStep = "importing"
    /\ iConfirmed = <<[paths |-> << <<"r","/","a","/","X">>, <<"r","/","b">> >>,
                       replaceMap |-> EmptyRecord]>>
    /\ aImported = iConfirmed[1].paths
    /\ aFolderTree = "none"

(***************************************************************************)
(* Specifications: each runs one part, the other parts stay idle.          *)
(***************************************************************************)

\* The waveform requests over files that do not change.
InitWaveform == WaveInit /\ FilterIdle /\ SortIdle /\ BrowserIdle /\ ImportIdle /\ LibIdle /\ EditIdle /\ MemoIdle /\ PagerIdle /\ DetailIdle /\ PlayerDeleteIdle /\ StartupIdle /\ ReverseIdle

SpecWaveform == InitWaveform /\ [][WaveNext]_vars

\* The same with the scheduling the event loop guarantees: a deferred
\* _processQueue runs, and get_waveform answers or fails.
WaveFairness ==
    /\ WF_vars(DeferredProcessQueue)
    /\ \A r \in 1..MaxReqs : WF_vars(r \in ReqIds /\ \E ok \in BOOLEAN : MiniResponse(r, ok))

SpecWaveformFair == InitWaveform /\ [][WaveNext]_vars /\ WaveFairness

\* The same with files replaced on disk in between.
SpecWaveformFiles == InitWaveform /\ [][WaveFilesNext]_vars

\* applyFilters applied to every bounded input.
InitFilter == FilterInit /\ WaveInit /\ SortIdle /\ BrowserIdle /\ ImportIdle /\ LibIdle /\ EditIdle /\ MemoIdle /\ PagerIdle /\ DetailIdle /\ PlayerDeleteIdle /\ StartupIdle /\ ReverseIdle

SpecFilter == InitFilter /\ [][FilterNext]_vars

\* sortSamples applied to every bounded input.
InitSort == SortInit /\ WaveInit /\ FilterIdle /\ BrowserIdle /\ ImportIdle /\ LibIdle /\ EditIdle /\ MemoIdle /\ PagerIdle /\ DetailIdle /\ PlayerDeleteIdle /\ StartupIdle /\ ReverseIdle

SpecSort == InitSort /\ [][SortNext]_vars

\* The sample browser's filters, sort menu and page buttons.
InitBrowser == BrowserInit /\ WaveInit /\ FilterIdle /\ SortIdle /\ ImportIdle /\ LibIdle /\ EditIdle /\ MemoIdle /\ PagerIdle /\ DetailIdle /\ PlayerDeleteIdle /\ StartupIdle /\ ReverseIdle

SpecBrowser == InitBrowser /\ [][BrowserNext]_vars

\* The folder selection dialog up to the hand-over to the import.
InitImport == ImportInit /\ WaveInit /\ FilterIdle /\ SortIdle /\ BrowserIdle /\ LibIdle /\ EditIdle /\ MemoIdle /\ PagerIdle /\ DetailIdle /\ PlayerDeleteIdle /\ StartupIdle /\ ReverseIdle

SpecImport == InitImport /\ [][ImportNext]_vars

\* The external import flow from the folder dialog to import_external_folder.
InitExternalImport == FlowInit /\ WaveInit /\ FilterIdle /\ SortIdle /\ BrowserIdle /\ LibIdle /\ EditIdle /\ MemoIdle /\ PagerIdle /\ DetailIdle /\ PlayerDeleteIdle /\ StartupIdle /\ ReverseIdle

SpecExternalImport == InitExternalImport /\ [][FlowNext]_vars

\* The pack list under overlapping deletes and refreshes.
InitLibrary == LibInit /\ WaveInit /\ FilterIdle /\ SortIdle /\ BrowserIdle /\ ImportIdle /\ EditIdle /\ MemoIdle /\ PagerIdle /\ DetailIdle /\ PlayerDeleteIdle /\ StartupIdle /\ ReverseIdle

SpecLibrary == InitLibrary /\ [][LibNext]_vars

\* The edit dialogs from opening to the save.
InitEdit == EditInit /\ WaveInit /\ FilterIdle /\ SortIdle /\ BrowserIdle /\ ImportIdle /\ LibIdle /\ MemoIdle /\ PagerIdle /\ DetailIdle /\ PlayerDeleteIdle /\ StartupIdle /\ ReverseIdle

SpecEdit == InitEdit /\ [][EditNext]_vars

\* The sorted memo of SampleBrowser with the sort menu.
InitSortedMemo == MemoInit /\ WaveInit /\ FilterIdle /\ SortIdle /\ BrowserIdle /\ ImportIdle /\ LibIdle /\ EditIdle /\ PagerIdle /\ DetailIdle /\ PlayerDeleteIdle /\ StartupIdle /\ ReverseIdle

SpecSortedMemo == InitSortedMemo /\ [][MemoNext]_vars

\* The page index of SampleBrowser.
InitPager == PagerInit /\ WaveInit /\ FilterIdle /\ SortIdle /\ BrowserIdle /\ ImportIdle /\ LibIdle /\ EditIdle /\ MemoIdle /\ DetailIdle /\ PlayerDeleteIdle /\ StartupIdle /\ ReverseIdle

SpecPager == InitPager /\ [][PagerNext]_vars

\* The sample list of the pack detail and playlist pages.
InitDetail == DetailInit /\ WaveInit /\ FilterIdle /\ SortIdle /\ BrowserIdle /\ ImportIdle /\ LibIdle /\ EditIdle /\ MemoIdle /\ PagerIdle /\ PlayerDeleteIdle /\ StartupIdle /\ ReverseIdle

SpecDetail == InitDetail /\ [][DetailNext]_vars

\* Delete operations and the selected sample.
InitPlayerDelete == PlayerDeleteInit /\ WaveInit /\ FilterIdle /\ SortIdle /\ BrowserIdle /\ ImportIdle /\ LibIdle /\ EditIdle /\ MemoIdle /\ PagerIdle /\ DetailIdle /\ StartupIdle /\ ReverseIdle

SpecPlayerDelete == InitPlayerDelete /\ [][PlayerDeleteNext]_vars

\* Startup of the app.
InitStartup == StartupInit /\ WaveInit /\ FilterIdle /\ SortIdle /\ BrowserIdle /\ ImportIdle /\ LibIdle /\ EditIdle /\ MemoIdle /\ PagerIdle /\ DetailIdle /\ PlayerDeleteIdle /\ ReverseIdle

\* Every invoke settles.
SpecStartupFair == InitStartup /\ [][StartupNext]_vars /\ StartupFairness

\* Reversed and chop playback of the player
InitReverse == ReverseInit /\ WaveInit /\ FilterIdle /\ SortIdle /\ BrowserIdle /\ ImportIdle /\ LibIdle /\ EditIdle /\ MemoIdle /\ PagerIdle /\ DetailIdle /\ PlayerDeleteIdle /\ StartupIdle

SpecReverse == InitReverse /\ [][ReverseNext]_vars

====
